---- MODULE Spec2Model ----
(***************************************************************************)
(* Model of the gateway of minio/ming (cmd/gateway-main.go,                *)
(* cmd/gateway-common.go):                                                 *)
(*   - GatewayLocker.Walk: the dispatch on the inner layer's native Walk   *)
(*     and the paginated fallback producer goroutine, with its consumer    *)
(*     and the canceller of its context (SpecWalk);                        *)
(*   - StartGateway: the bootstrap sequence, the goroutine running the     *)
(*     HTTP server, the background IAM load and the signal (SpecBoot).     *)
(***************************************************************************)
EXTENDS Integers, Sequences, FiniteSets

VARIABLES
    \* ---- GatewayLocker.Walk ----
    walkBucket,     \* argument bucket of Walk
    walkPrefix,     \* argument prefix of Walk
    wpc,            \* position of the caller inside GatewayLocker.Walk
    nativeErr,      \* what l.ObjectLayer.Walk returned ("unset" before the call)
    nativeCalls,    \* number of calls of l.ObjectLayer.Walk
    walkRet,        \* what GatewayLocker.Walk returned ("pending" before)
    ppc,            \* position of the fallback goroutine
    marker,         \* its local variable marker
    loi,            \* its local variable loi (the page of the last call)
    idx,            \* index of the range loop over loi.Objects
    sinkCap,        \* capacity of the results channel (0: unbuffered)
    sinkBuf,        \* content of the results channel
    closeCount,     \* how many times close(results) ran
    cancelled,      \* ctx.Done() is closed
    cpc,            \* consumer: "recv" (reading) or "done" (saw the closure)
    received,       \* what the consumer received, in order
    pushed,         \* history: what the goroutine sent, in order
    pages,          \* history: the pages ListObjects returned, in call order
    calls,          \* history: the arguments of the ListObjects calls
    logged,         \* what logger.LogIf was given
    exitVia,        \* history: which return of the goroutine ran
    \* ---- StartGateway ----
    bpc,            \* the bootstrap state the main goroutine executes next
    trace,          \* history: the bootstrap states executed, in order
    exitCode,       \* -1 while the process runs, else its exit code
    exitCause,      \* history: the bootstrap state whose failure ended the process
    fatalMsg,       \* what was reported when the process was ended with code 1
    gatewayName,    \* gw.Name()
    quiet,          \* minio.GlobalCLIContext.Quiet
    browserEnabled, \* minio.GlobalBrowserEnabled
    GlobalEtcdClient,   \* minio.GlobalEtcdClient: "nil" or "etcd"
    cacheEnabled,   \* minio.GlobalCacheConfig.Enabled
    dnsConfigured,  \* minio.GlobalDNSConfig != nil
    enableIAMOps,   \* the local variable enableIAMOps (line 251)
    GlobalServerConfig, \* minio.GlobalServerConfig is set
    GlobalHTTPServer,   \* minio.GlobalHTTPServer: "nil" or "httpServer"
    srv,            \* the HTTP server: "none", "pending" (goroutine started, Start
                    \* not yet run), "listening", "failed", "closedBeforeStart", "stopped"
    srvAtFailure,   \* history: srv when NewGatewayLayer returned its error
    srvAtSignal,    \* history: srv when the signal was handled
    shutdownCalls,  \* history: number of calls of GlobalHTTPServer.Shutdown()
    sigNotify,      \* signal.Notify has run
    sig,            \* the signal delivered on GlobalOSSignalCh, or "none"
    newObject,      \* the local variable newObject
    constructFailed,    \* history: gw.NewGatewayLayer returned an error
    GlobalObjectAPI,    \* minio.GlobalObjectAPI
    GlobalCacheObjectAPI,   \* minio.GlobalCacheObjectAPI is set
    GlobalObjLayerMutex,    \* minio.GlobalObjLayerMutex: "free", or "main" when the
                            \* main goroutine holds it
    migrateResult,  \* MigrateIAMConfigsEtcdToEncrypted: "none", "ok", "failed"
    iamStoreInit,   \* GlobalIAMSys.InitStore has run
    iamBg,          \* the goroutine GlobalIAMSys.Init: "none", "running", "loaded", "failed"
    dnsCacheStopped,    \* the deferred minio.GlobalDNSCache.Stop() has run
    \* ---- parseGatewaySSE ----
    ssePc,          \* "idle", "call" (argument given) or "returned"
    sseIn,          \* the argument s, a sequence of characters
    sseOut,         \* what the call returned: [gwSlice, err]
    \* ---- ParseGatewayEndpoint ----
    urlPc,          \* "idle", "call" (argument given) or "returned"
    urlIn,          \* the argument arg, a sequence of pieces of a string
    urlOut,         \* what the call returned: [host, secure, err]
    \* ---- GatewayLocker.NewNSLock ----
    lockers         \* for each caller: where it stands, the scope and the mode
                    \* it asked for, the lock NewNSLock returned to it

walkVars == <<walkBucket, walkPrefix, wpc, nativeErr, nativeCalls, walkRet, ppc,
              marker, loi, idx, sinkCap, sinkBuf, closeCount, cancelled, cpc,
              received, pushed, pages, calls, logged, exitVia>>

bootCtl == <<bpc, trace, exitCode, exitCause, fatalMsg>>
bootCfg == <<gatewayName, quiet, browserEnabled, GlobalEtcdClient, cacheEnabled,
             dnsConfigured, enableIAMOps, GlobalServerConfig>>
bootSrv == <<GlobalHTTPServer, srv, srvAtFailure, srvAtSignal, shutdownCalls, sigNotify,
             sig>>
bootObj == <<newObject, constructFailed, GlobalObjectAPI, GlobalCacheObjectAPI,
             GlobalObjLayerMutex>>
bootIAM == <<migrateResult, iamStoreInit, iamBg>>

bootVars == <<bootCtl, bootCfg, bootSrv, bootObj, bootIAM, dnsCacheStopped>>

sseVars == <<ssePc, sseIn, sseOut>>

\* What the operations of Walk and of StartGateway leave alone.
urlVars == <<urlPc, urlIn, urlOut>>

lockVars == <<lockers>>

nonWalkVars == <<bootVars, sseVars, urlVars, lockVars>>
nonBootVars == <<walkVars, sseVars, urlVars, lockVars>>

vars == <<walkVars, bootVars, sseVars, urlVars, lockVars>>

----------------------------------------------------------------------------
\* Bounds of the model.

\* Largest number of ListObjects calls of one walk.
MaxPages == 2
\* Largest number of objects in one page.
MaxPageLen == 2
\* Largest capacity of the results channel.
MaxSinkCap == 1

Buckets == {"b1", "b2"}
Prefixes == {"", "p/"}
Markers == {"", "m1"}
NotImplemented == "NotImplemented"
\* What the inner layer's native Walk can return.
NativeResults == {"nil", NotImplemented, "ErrBackend", "ErrTimeout"}
\* What a failing ListObjects can return.
ListErrs == {"ErrList"}

NoPage == [Objects |-> <<>>, NextMarker |-> "", IsTruncated |-> FALSE]

\* The walk never inspects an ObjectInfo, it only forwards it: the i-th object
\* of the page of the k-th call is named <<k, i>>, so that every object of a
\* walk is distinguishable from every other.
Obj(k, i) == <<k, i>>

\* The pages (ListObjectsInfo) the backend can answer the k-th call with.
PageSet(k) ==
    {[Objects |-> [i \in 1..n |-> Obj(k, i)], NextMarker |-> m, IsTruncated |-> t] :
        n \in 0..MaxPageLen, m \in Markers, t \in BOOLEAN}

RECURSIVE Flatten(_)
Flatten(ps) == IF ps = <<>> THEN <<>> ELSE Head(ps).Objects \o Flatten(Tail(ps))

IsPrefix(s, t) == Len(s) <= Len(t) /\ SubSeq(t, 1, Len(s)) = s

----------------------------------------------------------------------------
\* GatewayLocker.Walk

InitWalk ==
    /\ walkBucket \in Buckets
    /\ walkPrefix \in Prefixes
    /\ wpc = "start"
    /\ nativeErr = "unset"
    /\ nativeCalls = 0
    /\ walkRet = "pending"
    /\ ppc = "idle"
    /\ marker = ""
    /\ loi = NoPage
    /\ idx = 0
    /\ sinkCap \in 0..MaxSinkCap
    /\ sinkBuf = <<>>
    /\ closeCount = 0
    /\ cancelled = FALSE
    /\ cpc = "recv"
    /\ received = <<>>
    /\ pushed = <<>>
    /\ pages = <<>>
    /\ calls = <<>>
    /\ logged = <<>>
    /\ exitVia = "none"

callerVars == <<wpc, nativeErr, nativeCalls, walkRet>>
argVars == <<walkBucket, walkPrefix, sinkCap>>
producerVars == <<ppc, marker, loi, idx, pages, calls, logged, exitVia>>

\* Mutant of DispatchOn: every error of the native Walk starts the fallback.
DispatchOn_AnyErrorFallsBack(err) ==
    IF err = "nil" THEN "returnNil" ELSE "fallback"

\* The dispatch of lines 82-89 on the error of the native Walk.
DispatchOn(err) ==
    IF err = "nil" THEN "returnNil"
    ELSE IF err = NotImplemented THEN "fallback"
    ELSE "returnErr"

\* Mutant of NativeWalk: Walk closes the results channel itself when it
\* returns without starting the goroutine.
NativeWalk_ClosesOnReturn ==
    /\ wpc = "start"
    /\ \E r \in NativeResults :
        /\ nativeErr' = r
        /\ nativeCalls' = nativeCalls + 1
        /\ CASE DispatchOn(r) = "returnNil" ->
                    /\ walkRet' = "nil"
                    /\ wpc' = "returned"
                    /\ ppc' = ppc
                    /\ closeCount' = closeCount + 1
             [] DispatchOn(r) = "fallback" ->
                    /\ walkRet' = walkRet
                    /\ wpc' = "spawned"
                    /\ ppc' = "list"
                    /\ closeCount' = closeCount
             [] OTHER ->
                    /\ walkRet' = r
                    /\ wpc' = "returned"
                    /\ ppc' = ppc
                    /\ closeCount' = closeCount + 1
    /\ UNCHANGED <<argVars, marker, loi, idx, sinkBuf, cancelled, cpc,
                   received, pushed, pages, calls, logged, exitVia>>
    /\ UNCHANGED nonWalkVars

\* if err := l.ObjectLayer.Walk(...); err != nil { ... }: the native Walk is
\* called and its result dispatched on. On NotImplemented the closure walk
\* runs: its go statement starts the goroutine.
NativeWalk ==
    /\ wpc = "start"
    /\ \E r \in NativeResults :
        /\ nativeErr' = r
        /\ nativeCalls' = nativeCalls + 1
        /\ CASE DispatchOn(r) = "returnNil" ->
                    /\ walkRet' = "nil"
                    /\ wpc' = "returned"
                    /\ ppc' = ppc
             [] DispatchOn(r) = "fallback" ->
                    /\ walkRet' = walkRet
                    /\ wpc' = "spawned"
                    /\ ppc' = "list"
             [] OTHER ->
                    /\ walkRet' = r
                    /\ wpc' = "returned"
                    /\ ppc' = ppc
    /\ UNCHANGED <<argVars, marker, loi, idx, sinkBuf, closeCount, cancelled, cpc,
                   received, pushed, pages, calls, logged, exitVia>>
    /\ UNCHANGED nonWalkVars

\* return nil of the closure walk (line 79), returned by Walk (line 84).
WalkReturn ==
    /\ wpc = "spawned"
    /\ walkRet' = "nil"
    /\ wpc' = "returned"
    /\ UNCHANGED <<argVars, nativeErr, nativeCalls, ppc, marker, loi, idx, sinkBuf,
                   closeCount, cancelled, cpc, received, pushed, pages, calls,
                   logged, exitVia>>
    /\ UNCHANGED nonWalkVars

Call(m) == [bucket |-> walkBucket, prefix |-> walkPrefix, marker |-> m,
            delimiter |-> "", maxKeys |-> 0]

\* Mutant of ReturnVia: close(results) at the end of the loop instead of
\* deferred, so the early returns leave the channel open.
ReturnVia_CloseAtEnd(how) ==
    /\ ppc' = "done"
    /\ exitVia' = how
    /\ closeCount' = IF how = "complete" THEN closeCount + 1 ELSE closeCount

\* A return of the goroutine: the deferred close(results) runs.
ReturnVia(how) ==
    /\ ppc' = "done"
    /\ exitVia' = how
    /\ closeCount' = closeCount + 1

\* Mutant of AfterRange: the test of IsTruncated inverted.
AfterRange_Inverted(page) == IF page.IsTruncated THEN "break" ELSE "list"

\* Where the goroutine goes after a page whose range loop is over (lines 74-76).
AfterRange(page) == IF ~page.IsTruncated THEN "break" ELSE "list"

\* Mutant of ListObjectsOk: the marker is not taken from the page.
ListObjectsOk_KeepsMarker ==
    /\ ppc = "list"
    /\ \E page \in PageSet(Len(calls) + 1) :
        /\ Len(calls) + 1 = MaxPages => ~page.IsTruncated
        /\ calls' = Append(calls, Call(marker))
        /\ pages' = Append(pages, page)
        /\ loi' = page
        /\ marker' = marker
        /\ idx' = 1
        /\ ppc' = IF page.Objects = <<>> THEN "check" ELSE "select"
    /\ UNCHANGED <<argVars, callerVars, sinkBuf, closeCount, cancelled, cpc,
                   received, pushed, logged, exitVia>>
    /\ UNCHANGED nonWalkVars

\* Line 61 returning a page: marker = loi.NextMarker, then the range loop.
ListObjectsOk ==
    /\ ppc = "list"
    /\ \E page \in PageSet(Len(calls) + 1) :
        /\ Len(calls) + 1 = MaxPages => ~page.IsTruncated
        /\ calls' = Append(calls, Call(marker))
        /\ pages' = Append(pages, page)
        /\ loi' = page
        /\ marker' = page.NextMarker
        /\ idx' = 1
        /\ ppc' = IF page.Objects = <<>> THEN "check" ELSE "select"
    /\ UNCHANGED <<argVars, callerVars, sinkBuf, closeCount, cancelled, cpc,
                   received, pushed, logged, exitVia>>
    /\ UNCHANGED nonWalkVars

\* Mutant of ListObjectsErr: the error is logged and the call tried again.
ListObjectsErr_Retry ==
    /\ ppc = "list"
    /\ \E e \in ListErrs :
        /\ calls' = Append(calls, Call(marker))
        /\ logged' = Append(logged, e)
    /\ UNCHANGED <<argVars, callerVars, ppc, exitVia, closeCount, marker, loi, idx,
                   sinkBuf, cancelled, cpc, received, pushed, pages>>
    /\ UNCHANGED nonWalkVars

\* Line 61 returning an error: it is logged and the goroutine returns.
ListObjectsErr ==
    /\ ppc = "list"
    /\ \E e \in ListErrs :
        /\ calls' = Append(calls, Call(marker))
        /\ logged' = Append(logged, e)
    /\ ReturnVia("listerr")
    /\ UNCHANGED <<argVars, callerVars, marker, loi, idx, sinkBuf, cancelled, cpc,
                   received, pushed, pages>>
    /\ UNCHANGED nonWalkVars

\* The send case of the select can proceed: room in the buffer, or, on an
\* unbuffered channel, a consumer that is receiving.
CanSend ==
    \/ sinkCap > 0 /\ Len(sinkBuf) < sinkCap
    \/ sinkCap = 0 /\ cpc = "recv"

\* Mutant of SendObj: the range loop hands over the objects of a page from the
\* last one to the first.
SendObj_FromTheEnd ==
    /\ ppc = "select"
    /\ CanSend
    /\ LET obj == loi.Objects[Len(loi.Objects) + 1 - idx] IN
        /\ pushed' = Append(pushed, obj)
        /\ IF sinkCap = 0
           THEN received' = Append(received, obj) /\ sinkBuf' = sinkBuf
           ELSE sinkBuf' = Append(sinkBuf, obj) /\ received' = received
    /\ idx' = idx + 1
    /\ ppc' = IF idx = Len(loi.Objects) THEN "check" ELSE "select"
    /\ UNCHANGED <<argVars, callerVars, marker, loi, closeCount, cancelled, cpc,
                   pages, calls, logged, exitVia>>
    /\ UNCHANGED nonWalkVars

\* case results <- obj (line 69). When the send can proceed and ctx is
\* cancelled, both cases of the select are ready and Go picks either: SendObj
\* and CtxDone are then both enabled.
SendObj ==
    /\ ppc = "select"
    /\ CanSend
    /\ LET obj == loi.Objects[idx] IN
        /\ pushed' = Append(pushed, obj)
        /\ IF sinkCap = 0
           THEN received' = Append(received, obj) /\ sinkBuf' = sinkBuf
           ELSE sinkBuf' = Append(sinkBuf, obj) /\ received' = received
    /\ idx' = idx + 1
    /\ ppc' = IF idx = Len(loi.Objects) THEN "check" ELSE "select"
    /\ UNCHANGED <<argVars, callerVars, marker, loi, closeCount, cancelled, cpc,
                   pages, calls, logged, exitVia>>
    /\ UNCHANGED nonWalkVars

\* Mutant of CtxDone: the Done case leaves the select only, and the range loop
\* goes on with the next object.
CtxDone_SkipsObject ==
    /\ ppc = "select"
    /\ cancelled
    /\ exitVia' = "cancel"
    /\ idx' = idx + 1
    /\ ppc' = IF idx = Len(loi.Objects) THEN "check" ELSE "select"
    /\ UNCHANGED <<argVars, callerVars, marker, loi, sinkBuf, closeCount, cancelled,
                   cpc, received, pushed, pages, calls, logged>>
    /\ UNCHANGED nonWalkVars

\* Mutant of CtxDone: a plain send in place of the select, no Done case.
CtxDone_NoDoneCase ==
    /\ FALSE
    /\ UNCHANGED vars

\* case <-ctx.Done(): return (lines 70-71).
CtxDone ==
    /\ ppc = "select"
    /\ cancelled
    /\ ReturnVia("cancel")
    /\ UNCHANGED <<argVars, callerVars, marker, loi, idx, sinkBuf, cancelled, cpc,
                   received, pushed, pages, calls, logged>>
    /\ UNCHANGED nonWalkVars

\* if !loi.IsTruncated { break } (lines 74-76); after the break the function
\* ends and the deferred close runs.
CheckTruncated ==
    /\ ppc = "check"
    /\ IF AfterRange(loi) = "break"
       THEN ReturnVia("complete")
       ELSE ppc' = "list" /\ UNCHANGED <<exitVia, closeCount>>
    /\ UNCHANGED <<argVars, callerVars, marker, loi, idx, sinkBuf, cancelled, cpc,
                   received, pushed, pages, calls, logged>>
    /\ UNCHANGED nonWalkVars

\* The consumer takes an object out of a buffered results channel.
Receive ==
    /\ cpc = "recv"
    /\ sinkBuf # <<>>
    /\ received' = Append(received, Head(sinkBuf))
    /\ sinkBuf' = Tail(sinkBuf)
    /\ UNCHANGED <<argVars, callerVars, producerVars, closeCount, cancelled, cpc, pushed>>
    /\ UNCHANGED nonWalkVars

\* The consumer's receive returns ok = false: the channel is closed and empty.
ObserveClose ==
    /\ cpc = "recv"
    /\ closeCount > 0
    /\ sinkBuf = <<>>
    /\ cpc' = "done"
    /\ UNCHANGED <<argVars, callerVars, producerVars, sinkBuf, closeCount, cancelled,
                   received, pushed>>
    /\ UNCHANGED nonWalkVars

\* The consumer stops reading the results channel for good.
ConsumerStops ==
    /\ cpc = "recv"
    /\ cpc' = "gone"
    /\ UNCHANGED <<argVars, callerVars, producerVars, sinkBuf, closeCount, cancelled,
                   received, pushed>>
    /\ UNCHANGED nonWalkVars

\* The owner of ctx cancels it.
Cancel ==
    /\ ~cancelled
    /\ cancelled' = TRUE
    /\ UNCHANGED <<argVars, callerVars, producerVars, sinkBuf, closeCount, cpc,
                   received, pushed>>
    /\ UNCHANGED nonWalkVars

WalkStep ==
    \/ NativeWalk
    \/ WalkReturn
    \/ ListObjectsOk
    \/ ListObjectsErr
    \/ SendObj
    \/ CtxDone
    \/ CheckTruncated
    \/ Receive
    \/ ObserveClose
    \/ ConsumerStops
    \/ Cancel

----------------------------------------------------------------------------
\* StartGateway

NASBackendGateway == "nas"
GatewayNames == {NASBackendGateway, "s3"}
Signals == {"SIGINT", "SIGTERM", "SIGQUIT"}

Nil == [kind |-> "nil"]
\* What gw.NewGatewayLayer returns on success.
BackendLayer(name) == [kind |-> "backend", name |-> name]

\* Mutant of NewGatewayLayerWithLocker: the layer is handed back undecorated.
NewGatewayLayerWithLocker_Undecorated(gwLayer) == gwLayer

\* NewGatewayLayerWithLocker (lines 93-95).
NewGatewayLayerWithLocker(gwLayer) ==
    [kind |-> "GatewayLocker", ObjectLayer |-> gwLayer, nsMutex |-> "NSLockMap"]

\* The code order with the disk cache initialised before the IAM migration.
CodeOrder_CacheFirst ==
    << "ValidateArgs", "LoadTLS", "LoadRootCAs", "InitHelp", "ResolveListenAddress",
       "CheckPortAvailable", "ApplyEnvOverrides", "SetResourceLimits",
       "BuildServerConfig", "StartRouterAndListener", "ConstructBackendLayer",
       "DecorateLayer", "NewAllSubsystems", "InstallGlobalLayer", "InitNotification",
       "InitDiskCache", "MigrateEncryptedIAM", "InitIAM", "InitDNSFederation",
       "VerifyFeatureSupport", "PrintStartupBanner", "AwaitSignal", "Blocked" >>

\* The statements of StartGateway in the order of the code, grouped into the
\* bootstrap states; NewAllSubsystems (line 302) stands between the decoration
\* and the installation of the object layer.
CodeOrder ==
    << "ValidateArgs", "LoadTLS", "LoadRootCAs", "InitHelp", "ResolveListenAddress",
       "CheckPortAvailable", "ApplyEnvOverrides", "SetResourceLimits",
       "BuildServerConfig", "StartRouterAndListener", "ConstructBackendLayer",
       "DecorateLayer", "NewAllSubsystems", "InstallGlobalLayer", "InitNotification",
       "MigrateEncryptedIAM", "InitIAM", "InitDiskCache", "InitDNSFederation",
       "VerifyFeatureSupport", "PrintStartupBanner", "AwaitSignal", "Blocked" >>

IndexIn(seq, s) == CHOOSE i \in 1..Len(seq) : seq[i] = s

\* Mutant of NextState: the statements of two states in the other order.
NextState_CacheFirst(s) == CodeOrder_CacheFirst[IndexIn(CodeOrder_CacheFirst, s) + 1]

\* The code order with the routers and the listener before the environment.
CodeOrder_ListenerBeforeEnv ==
    << "ValidateArgs", "LoadTLS", "LoadRootCAs", "InitHelp", "ResolveListenAddress",
       "CheckPortAvailable", "SetResourceLimits", "BuildServerConfig",
       "StartRouterAndListener", "ApplyEnvOverrides", "ConstructBackendLayer",
       "DecorateLayer", "NewAllSubsystems", "InstallGlobalLayer", "InitNotification",
       "MigrateEncryptedIAM", "InitIAM", "InitDiskCache", "InitDNSFederation",
       "VerifyFeatureSupport", "PrintStartupBanner", "AwaitSignal", "Blocked" >>

\* Mutant of NextState: gatewayHandleEnvVars is called after the listener
\* was started.
NextState_ListenerBeforeEnv(s) ==
    CodeOrder_ListenerBeforeEnv[IndexIn(CodeOrder_ListenerBeforeEnv, s) + 1]

\* The code order with the backend constructed, decorated and installed
\* before the routers and the listener.
CodeOrder_BackendBeforeListener ==
    << "ValidateArgs", "LoadTLS", "LoadRootCAs", "InitHelp", "ResolveListenAddress",
       "CheckPortAvailable", "ApplyEnvOverrides", "SetResourceLimits",
       "BuildServerConfig", "ConstructBackendLayer", "DecorateLayer",
       "NewAllSubsystems", "InstallGlobalLayer", "StartRouterAndListener",
       "InitNotification", "MigrateEncryptedIAM", "InitIAM", "InitDiskCache",
       "InitDNSFederation", "VerifyFeatureSupport", "PrintStartupBanner",
       "AwaitSignal", "Blocked" >>

\* Mutant of NextState: the listener is started after the object layer was
\* installed.
NextState_BackendBeforeListener(s) ==
    CodeOrder_BackendBeforeListener[IndexIn(CodeOrder_BackendBeforeListener, s) + 1]

\* The state whose statements follow those of s in the code.
NextState(s) == CodeOrder[IndexIn(CodeOrder, s) + 1]

InitBoot ==
    /\ bpc = "ValidateArgs"
    /\ trace = <<>>
    /\ exitCode = -1
    /\ exitCause = "none"
    /\ fatalMsg = ""
    /\ gatewayName = ""
    /\ quiet = FALSE
    /\ browserEnabled = FALSE
    /\ GlobalEtcdClient = "nil"
    /\ cacheEnabled = FALSE
    /\ dnsConfigured = FALSE
    /\ enableIAMOps = FALSE
    /\ GlobalServerConfig = FALSE
    /\ GlobalHTTPServer = "nil"
    /\ srv = "none"
    /\ srvAtFailure = "none"
    /\ srvAtSignal = "none"
    /\ shutdownCalls = 0
    /\ sigNotify = FALSE
    /\ sig = "none"
    /\ newObject = Nil
    /\ constructFailed = FALSE
    /\ GlobalObjectAPI = Nil
    /\ GlobalCacheObjectAPI = FALSE
    /\ GlobalObjLayerMutex = "free"
    /\ migrateResult = "none"
    /\ iamStoreInit = FALSE
    /\ iamBg = "none"
    /\ dnsCacheStopped = FALSE

Running == exitCode = -1

\* The statements of state s ran to their end.
Advance(s) ==
    /\ bpc = s
    /\ bpc' = NextState(s)
    /\ trace' = Append(trace, s)
    /\ UNCHANGED <<exitCode, exitCause, fatalMsg>>

\* The condition guarding state s is false: its statements do not run.
Skip(s) ==
    /\ bpc = s
    /\ bpc' = NextState(s)
    /\ UNCHANGED <<trace, exitCode, exitCause, fatalMsg>>

\* Mutant of Fatal: the error is reported and the bootstrap goes on.
Fatal_LogsOnly(s, msg) ==
    /\ bpc = s
    /\ bpc' = NextState(s)
    /\ trace' = Append(trace, s)
    /\ exitCode' = exitCode
    /\ exitCause' = s
    /\ fatalMsg' = msg

\* logger.FatalIf / logger.Fatal with an error (or ShowCommandHelpAndExit(.., 1))
\* in state s: os.Exit(1).
Fatal(s, msg) ==
    /\ bpc = s
    /\ bpc' = "Exited"
    /\ trace' = Append(trace, s)
    /\ exitCode' = 1
    /\ exitCause' = s
    /\ fatalMsg' = msg

\* Lines 153-176: gw == nil, the help argument, HandleCommonCmdArgs.
ValidateArgs ==
    /\ \/ Fatal("ValidateArgs", "Gateway implementation not initialized")
          /\ UNCHANGED <<gatewayName, quiet>>
       \/ \E n \in GatewayNames :
            /\ gatewayName' = n
            /\ \/ Fatal("ValidateArgs", "help") /\ quiet' = quiet
               \/ Advance("ValidateArgs") /\ quiet' \in BOOLEAN
    /\ UNCHANGED <<browserEnabled, GlobalEtcdClient, cacheEnabled, dnsConfigured,
                   enableIAMOps, GlobalServerConfig, bootSrv, bootObj, bootIAM,
                   dnsCacheStopped>>
    /\ UNCHANGED nonBootVars

\* Lines 180-181.
LoadTLS ==
    /\ \/ Advance("LoadTLS")
       \/ Fatal("LoadTLS", "Invalid TLS certificate file")
    /\ UNCHANGED <<bootCfg, bootSrv, bootObj, bootIAM, dnsCacheStopped>>
    /\ UNCHANGED nonBootVars

\* Lines 184-193.
LoadRootCAs ==
    /\ \/ Advance("LoadRootCAs")
       \/ Fatal("LoadRootCAs", "Failed to read root CAs")
    /\ UNCHANGED <<bootCfg, bootSrv, bootObj, bootIAM, dnsCacheStopped>>
    /\ UNCHANGED nonBootVars

\* Line 196.
InitHelp ==
    /\ Advance("InitHelp")
    /\ UNCHANGED <<bootCfg, bootSrv, bootObj, bootIAM, dnsCacheStopped>>
    /\ UNCHANGED nonBootVars

\* Line 199: MustSplitHostPort.
ResolveListenAddress ==
    /\ \/ Advance("ResolveListenAddress")
       \/ Fatal("ResolveListenAddress", "Unable to split host port")
    /\ UNCHANGED <<bootCfg, bootSrv, bootObj, bootIAM, dnsCacheStopped>>
    /\ UNCHANGED nonBootVars

\* Line 205.
CheckPortAvailable ==
    /\ \/ Advance("CheckPortAvailable")
       \/ Fatal("CheckPortAvailable", "Unable to start the gateway")
    /\ UNCHANGED <<bootCfg, bootSrv, bootObj, bootIAM, dnsCacheStopped>>
    /\ UNCHANGED nonBootVars

\* Lines 207-216: gatewayHandleEnvVars (gateway-common.go lines 50-67).
ApplyEnvOverrides ==
    /\ \/ Advance("ApplyEnvOverrides") /\ browserEnabled' \in BOOLEAN
       \/ /\ Fatal("ApplyEnvOverrides",
                   "Unable to validate credentials inherited from the shell environment")
          /\ browserEnabled' \in BOOLEAN
       \/ /\ Fatal("ApplyEnvOverrides", "Unable to parse MINIO_GATEWAY_SSE value")
          /\ browserEnabled' \in BOOLEAN
    /\ UNCHANGED <<gatewayName, quiet, GlobalEtcdClient, cacheEnabled, dnsConfigured,
                   enableIAMOps, GlobalServerConfig, bootSrv, bootObj, bootIAM,
                   dnsCacheStopped>>
    /\ UNCHANGED nonBootVars

\* Lines 219-222.
SetResourceLimits ==
    /\ Advance("SetResourceLimits")
    /\ UNCHANGED <<bootCfg, bootSrv, bootObj, bootIAM, dnsCacheStopped>>
    /\ UNCHANGED nonBootVars

\* Lines 231-239: LookupConfigs reads the etcd, cache and DNS configuration
\* from the environment; the server config is installed.
BuildServerConfig ==
    /\ Advance("BuildServerConfig")
    /\ GlobalEtcdClient' \in {"nil", "etcd"}
    /\ cacheEnabled' \in BOOLEAN
    /\ dnsConfigured' \in BOOLEAN
    /\ GlobalServerConfig' = TRUE
    /\ UNCHANGED <<gatewayName, quiet, browserEnabled, enableIAMOps, bootSrv, bootObj,
                   bootIAM, dnsCacheStopped>>
    /\ UNCHANGED nonBootVars

\* Mutant of MutexLock: the statements go on without the mutex taken.
MutexLock_Skipped(at, next) ==
    /\ bpc = at
    /\ bpc' = next
    /\ GlobalObjLayerMutex' = GlobalObjLayerMutex
    /\ UNCHANGED <<trace, exitCode, exitCause, fatalMsg>>

\* minio.GlobalObjLayerMutex.Lock() by the main goroutine standing at position
\* at: it waits for the mutex to be free, takes it and goes on to next.
MutexLock(at, next) ==
    /\ bpc = at
    /\ GlobalObjLayerMutex = "free"
    /\ GlobalObjLayerMutex' = "main"
    /\ bpc' = next
    /\ UNCHANGED <<trace, exitCode, exitCause, fatalMsg>>

\* minio.GlobalObjLayerMutex.Unlock() at position at, the last statement of
\* state s.
MutexUnlock(at, s) ==
    /\ bpc = at
    /\ GlobalObjLayerMutex' = "free"
    /\ bpc' = NextState(s)
    /\ trace' = Append(trace, s)
    /\ UNCHANGED <<exitCode, exitCause, fatalMsg>>

\* Lines 244-286: the routers, enableIAMOps, xhttp.NewServer and the goroutine
\* running httpServer.Start().
StartRouterAndListener ==
    /\ enableIAMOps' = (GlobalEtcdClient # "nil")
    /\ \/ /\ browserEnabled
          /\ Fatal("StartRouterAndListener", "Unable to configure web browser")
          /\ srv' = srv
       \/ /\ bpc = "StartRouterAndListener"
          /\ bpc' = "InstallHTTPServer.Lock"
          /\ srv' = "pending"
          /\ UNCHANGED <<trace, exitCode, exitCause, fatalMsg>>
    /\ UNCHANGED <<GlobalHTTPServer, srvAtFailure, srvAtSignal, shutdownCalls, sigNotify,
                   sig>>
    /\ UNCHANGED <<gatewayName, quiet, browserEnabled, GlobalEtcdClient, cacheEnabled,
                   dnsConfigured, GlobalServerConfig, bootObj, bootIAM, dnsCacheStopped>>
    /\ UNCHANGED nonBootVars

\* Line 288.
LockForHTTPServer ==
    /\ MutexLock("InstallHTTPServer.Lock", "InstallHTTPServer.Write")
    /\ UNCHANGED <<bootCfg, bootSrv, newObject, constructFailed, GlobalObjectAPI,
                   GlobalCacheObjectAPI, bootIAM, dnsCacheStopped>>
    /\ UNCHANGED nonBootVars

\* Line 289: minio.GlobalHTTPServer = httpServer.
InstallHTTPServer ==
    /\ bpc = "InstallHTTPServer.Write"
    /\ bpc' = "InstallHTTPServer.Unlock"
    /\ GlobalHTTPServer' = "httpServer"
    /\ UNCHANGED <<trace, exitCode, exitCause, fatalMsg>>
    /\ UNCHANGED <<srv, srvAtFailure, srvAtSignal, shutdownCalls, sigNotify, sig>>
    /\ UNCHANGED <<bootCfg, bootObj, bootIAM, dnsCacheStopped>>
    /\ UNCHANGED nonBootVars

\* Lines 290-292: the mutex is released, signal.Notify registers the signals.
UnlockAfterHTTPServer ==
    /\ MutexUnlock("InstallHTTPServer.Unlock", "StartRouterAndListener")
    /\ sigNotify' = TRUE
    /\ UNCHANGED <<GlobalHTTPServer, srv, srvAtFailure, srvAtSignal, shutdownCalls, sig>>
    /\ UNCHANGED <<bootCfg, newObject, constructFailed, GlobalObjectAPI,
                   GlobalCacheObjectAPI, bootIAM, dnsCacheStopped>>
    /\ UNCHANGED nonBootVars

\* The goroutine of lines 284-286: httpServer.Start() binds the listener or
\* fails; a server shut down before Start ran does not listen.
ServerStart ==
    /\ Running
    /\ \/ srv = "pending" /\ srv' \in {"listening", "failed"}
       \/ srv = "closedBeforeStart" /\ srv' = "failed"
    /\ UNCHANGED <<bootCtl, bootCfg, GlobalHTTPServer, srvAtFailure, srvAtSignal,
                   shutdownCalls, sigNotify, sig, bootObj, bootIAM, dnsCacheStopped>>
    /\ UNCHANGED nonBootVars

\* What GlobalHTTPServer.Shutdown() can leave the server in: a listening one is
\* stopped; one whose Start has not run yet is either marked closed or left as
\* it was (the server library decides).
AfterShutdown(s) ==
    IF s = "listening" THEN {"stopped"}
    ELSE IF s = "pending" THEN {"pending", "closedBeforeStart"}
    ELSE {s}

\* Mutant of ConstructBackendLayer: the error path without the call of
\* GlobalHTTPServer.Shutdown().
ConstructBackendLayer_NoShutdown ==
    /\ \/ /\ Advance("ConstructBackendLayer")
          /\ newObject' = BackendLayer(gatewayName)
          /\ UNCHANGED <<constructFailed, bootSrv>>
       \/ /\ bpc = "ConstructBackendLayer"
          /\ bpc' = "FatalBackend"
          /\ trace' = Append(trace, "ConstructBackendLayer")
          /\ constructFailed' = TRUE
          /\ srvAtFailure' = srv
          /\ UNCHANGED <<exitCode, exitCause, fatalMsg, newObject, GlobalHTTPServer,
                         srv, srvAtSignal, shutdownCalls, sigNotify, sig>>
    /\ UNCHANGED <<bootCfg, GlobalObjectAPI, GlobalCacheObjectAPI,
                   GlobalObjLayerMutex, bootIAM,
                   dnsCacheStopped>>
    /\ UNCHANGED nonBootVars

\* Lines 294-296: gw.NewGatewayLayer; on its error GlobalHTTPServer.Shutdown().
ConstructBackendLayer ==
    /\ \/ /\ Advance("ConstructBackendLayer")
          /\ newObject' = BackendLayer(gatewayName)
          /\ UNCHANGED <<constructFailed, bootSrv>>
       \/ /\ bpc = "ConstructBackendLayer"
          /\ bpc' = "FatalBackend"
          /\ trace' = Append(trace, "ConstructBackendLayer")
          /\ constructFailed' = TRUE
          /\ srvAtFailure' = srv
          /\ srv' \in AfterShutdown(srv)
          /\ shutdownCalls' = shutdownCalls + 1
          /\ UNCHANGED <<exitCode, exitCause, fatalMsg, newObject, GlobalHTTPServer,
                         srvAtSignal, sigNotify, sig>>
    /\ UNCHANGED <<bootCfg, GlobalObjectAPI, GlobalCacheObjectAPI,
                   GlobalObjLayerMutex, bootIAM,
                   dnsCacheStopped>>
    /\ UNCHANGED nonBootVars

\* Mutant of FatalBackend: the error of NewGatewayLayer is logged without
\* ending the process.
FatalBackend_LogsOnly ==
    /\ bpc = "FatalBackend"
    /\ bpc' = "DecorateLayer"
    /\ fatalMsg' = "Unable to initialize gateway backend"
    /\ UNCHANGED <<trace, exitCode, exitCause, bootCfg, bootSrv, bootObj, bootIAM,
                   dnsCacheStopped>>
    /\ UNCHANGED nonBootVars

\* Line 297: logger.FatalIf(err, ...) with the error of NewGatewayLayer.
FatalBackend ==
    /\ bpc = "FatalBackend"
    /\ bpc' = "Exited"
    /\ exitCode' = 1
    /\ exitCause' = "ConstructBackendLayer"
    /\ fatalMsg' = "Unable to initialize gateway backend"
    /\ UNCHANGED <<trace, bootCfg, bootSrv, bootObj, bootIAM, dnsCacheStopped>>
    /\ UNCHANGED nonBootVars

\* Line 299.
DecorateLayer ==
    /\ Advance("DecorateLayer")
    /\ newObject' = NewGatewayLayerWithLocker(newObject)
    /\ UNCHANGED <<bootCfg, bootSrv, constructFailed, GlobalObjectAPI,
                   GlobalCacheObjectAPI, GlobalObjLayerMutex, bootIAM, dnsCacheStopped>>
    /\ UNCHANGED nonBootVars

\* Line 302.
NewAllSubsystems ==
    /\ Advance("NewAllSubsystems")
    /\ UNCHANGED <<bootCfg, bootSrv, bootObj, bootIAM, dnsCacheStopped>>
    /\ UNCHANGED nonBootVars

\* Line 305.
LockForObjectAPI ==
    /\ MutexLock("InstallGlobalLayer", "InstallGlobalLayer.Write")
    /\ UNCHANGED <<bootCfg, bootSrv, newObject, constructFailed, GlobalObjectAPI,
                   GlobalCacheObjectAPI, bootIAM, dnsCacheStopped>>
    /\ UNCHANGED nonBootVars

\* Line 306: minio.GlobalObjectAPI = newObject.
InstallGlobalLayer ==
    /\ bpc = "InstallGlobalLayer.Write"
    /\ bpc' = "InstallGlobalLayer.Unlock"
    /\ GlobalObjectAPI' = newObject
    /\ UNCHANGED <<trace, exitCode, exitCause, fatalMsg>>
    /\ UNCHANGED <<bootCfg, bootSrv, newObject, constructFailed, GlobalCacheObjectAPI,
                   GlobalObjLayerMutex, bootIAM, dnsCacheStopped>>
    /\ UNCHANGED nonBootVars

\* Line 307.
UnlockAfterObjectAPI ==
    /\ MutexUnlock("InstallGlobalLayer.Unlock", "InstallGlobalLayer")
    /\ UNCHANGED <<bootCfg, bootSrv, newObject, constructFailed, GlobalObjectAPI,
                   GlobalCacheObjectAPI, bootIAM, dnsCacheStopped>>
    /\ UNCHANGED nonBootVars

\* Lines 309-315.
InitNotification ==
    /\ IF gatewayName = NASBackendGateway
       THEN \/ Advance("InitNotification")
            \/ Fatal("InitNotification", "Unable to list buckets")
            \/ Fatal("InitNotification", "Unable to initialize notification system")
       ELSE Skip("InitNotification")
    /\ UNCHANGED <<bootCfg, bootSrv, bootObj, bootIAM, dnsCacheStopped>>
    /\ UNCHANGED nonBootVars

\* Mutant of MigrateEncryptedIAM: a failed migration is not fatal.
MigrateEncryptedIAM_NotFatal ==
    /\ IF GlobalEtcdClient # "nil"
       THEN \/ Advance("MigrateEncryptedIAM") /\ migrateResult' = "ok"
            \/ Advance("MigrateEncryptedIAM") /\ migrateResult' = "failed"
       ELSE Skip("MigrateEncryptedIAM") /\ migrateResult' = migrateResult
    /\ UNCHANGED <<bootCfg, bootSrv, bootObj, iamStoreInit, iamBg, dnsCacheStopped>>
    /\ UNCHANGED nonBootVars

\* Lines 317-323.
MigrateEncryptedIAM ==
    /\ IF GlobalEtcdClient # "nil"
       THEN \/ Advance("MigrateEncryptedIAM") /\ migrateResult' = "ok"
            \/ /\ Fatal("MigrateEncryptedIAM",
                        "Unable to handle encrypted backend for iam and policies")
               /\ migrateResult' = "failed"
       ELSE Skip("MigrateEncryptedIAM") /\ migrateResult' = migrateResult
    /\ UNCHANGED <<bootCfg, bootSrv, bootObj, iamStoreInit, iamBg, dnsCacheStopped>>
    /\ UNCHANGED nonBootVars

\* Lines 325-330: InitStore, then the goroutine GlobalIAMSys.Init.
InitIAM ==
    /\ IF enableIAMOps
       THEN Advance("InitIAM") /\ iamStoreInit' = TRUE /\ iamBg' = "running"
       ELSE Skip("InitIAM") /\ UNCHANGED <<iamStoreInit, iamBg>>
    /\ UNCHANGED <<bootCfg, bootSrv, bootObj, migrateResult, dnsCacheStopped>>
    /\ UNCHANGED nonBootVars

\* Mutant of IAMLoad: a failed load ends the process.
IAMLoad_FatalOnFailure ==
    /\ Running
    /\ iamBg = "running"
    /\ \/ iamBg' = "loaded" /\ UNCHANGED bootCtl
       \/ /\ iamBg' = "failed"
          /\ bpc' = "Exited"
          /\ exitCode' = 1
          /\ fatalMsg' = "Unable to initialize IAM"
          /\ UNCHANGED <<trace, exitCause>>
    /\ UNCHANGED <<bootCfg, bootSrv, bootObj, migrateResult, iamStoreInit,
                   dnsCacheStopped>>
    /\ UNCHANGED nonBootVars

\* The goroutine of line 329 ends: the IAM load succeeded or failed.
IAMLoad ==
    /\ Running
    /\ iamBg = "running"
    /\ iamBg' \in {"loaded", "failed"}
    /\ UNCHANGED <<bootCtl, bootCfg, bootSrv, bootObj, migrateResult, iamStoreInit,
                   dnsCacheStopped>>
    /\ UNCHANGED nonBootVars

\* Lines 332-337: NewServerCacheObjects when the cache is enabled.
InitDiskCache ==
    /\ IF cacheEnabled
       THEN \/ /\ bpc = "InitDiskCache"
               /\ bpc' = "InitDiskCache.Lock"
               /\ UNCHANGED <<trace, exitCode, exitCause, fatalMsg>>
            \/ Fatal("InitDiskCache", "Unable to initialize disk caching")
       ELSE Skip("InitDiskCache")
    /\ UNCHANGED <<bootCfg, bootSrv, bootObj, bootIAM, dnsCacheStopped>>
    /\ UNCHANGED nonBootVars

\* Line 338.
LockForCacheAPI ==
    /\ MutexLock("InitDiskCache.Lock", "InitDiskCache.Write")
    /\ UNCHANGED <<bootCfg, bootSrv, newObject, constructFailed, GlobalObjectAPI,
                   GlobalCacheObjectAPI, bootIAM, dnsCacheStopped>>
    /\ UNCHANGED nonBootVars

\* Line 339: minio.GlobalCacheObjectAPI = cacheAPI.
InstallCacheAPI ==
    /\ bpc = "InitDiskCache.Write"
    /\ bpc' = "InitDiskCache.Unlock"
    /\ GlobalCacheObjectAPI' = TRUE
    /\ UNCHANGED <<trace, exitCode, exitCause, fatalMsg>>
    /\ UNCHANGED <<bootCfg, bootSrv, newObject, constructFailed, GlobalObjectAPI,
                   GlobalObjLayerMutex, bootIAM, dnsCacheStopped>>
    /\ UNCHANGED nonBootVars

\* Line 340.
UnlockAfterCacheAPI ==
    /\ MutexUnlock("InitDiskCache.Unlock", "InitDiskCache")
    /\ UNCHANGED <<bootCfg, bootSrv, newObject, constructFailed, GlobalObjectAPI,
                   GlobalCacheObjectAPI, bootIAM, dnsCacheStopped>>
    /\ UNCHANGED nonBootVars

\* Lines 344-350.
InitDNSFederation ==
    /\ IF dnsConfigured
       THEN \/ Advance("InitDNSFederation")
            \/ Fatal("InitDNSFederation", "Unable to list buckets")
       ELSE Skip("InitDNSFederation")
    /\ UNCHANGED <<bootCfg, bootSrv, bootObj, bootIAM, dnsCacheStopped>>
    /\ UNCHANGED nonBootVars

\* Line 355.
VerifyFeatureSupport ==
    /\ Advance("VerifyFeatureSupport")
    /\ UNCHANGED <<bootCfg, bootSrv, bootObj, bootIAM, dnsCacheStopped>>
    /\ UNCHANGED nonBootVars

\* Lines 358-370.
PrintStartupBanner ==
    /\ IF ~quiet THEN Advance("PrintStartupBanner") ELSE Skip("PrintStartupBanner")
    /\ UNCHANGED <<bootCfg, bootSrv, bootObj, bootIAM, dnsCacheStopped>>
    /\ UNCHANGED nonBootVars

\* Line 372: the main goroutine enters minio.HandleSignals and blocks there.
AwaitSignal ==
    /\ Advance("AwaitSignal")
    /\ UNCHANGED <<bootCfg, bootSrv, bootObj, bootIAM, dnsCacheStopped>>
    /\ UNCHANGED nonBootVars

\* One of the signals registered at line 292 is delivered.
SignalArrives ==
    /\ Running
    /\ sigNotify
    /\ sig = "none"
    /\ sig' \in Signals
    /\ UNCHANGED <<bootCtl, bootCfg, GlobalHTTPServer, srv, srvAtFailure, srvAtSignal,
                   shutdownCalls, sigNotify, bootObj, bootIAM, dnsCacheStopped>>
    /\ UNCHANGED nonBootVars

\* minio.HandleSignals on a signal, as the specification describes it: the
\* HTTP server is shut down and HandleSignals returns to StartGateway.
Shutdown ==
    /\ bpc = "Blocked"
    /\ sig # "none"
    /\ bpc' = "Return"
    /\ trace' = Append(trace, "Shutdown")
    /\ srvAtSignal' = srv
    /\ srv' \in AfterShutdown(srv)
    /\ shutdownCalls' = shutdownCalls + 1
    /\ UNCHANGED <<exitCode, exitCause, fatalMsg, bootCfg, GlobalHTTPServer, srvAtFailure,
                   sigNotify, sig, bootObj, bootIAM, dnsCacheStopped>>
    /\ UNCHANGED nonBootVars

\* Mutant of DeferredStop: StartGateway returns without the deferred call.
DeferredStop_NoDefer ==
    /\ bpc = "Return"
    /\ bpc' = "Exited"
    /\ exitCode' = 0
    /\ dnsCacheStopped' = dnsCacheStopped
    /\ UNCHANGED <<trace, exitCause, fatalMsg, bootCfg, bootSrv, bootObj, bootIAM>>
    /\ UNCHANGED nonBootVars

\* StartGateway returns: the deferred minio.GlobalDNSCache.Stop() of line 153
\* runs, and the process ends with code 0 (main.go line 147: Run returned no
\* error).
DeferredStop ==
    /\ bpc = "Return"
    /\ bpc' = "Exited"
    /\ exitCode' = 0
    /\ dnsCacheStopped' = TRUE
    /\ UNCHANGED <<trace, exitCause, fatalMsg, bootCfg, bootSrv, bootObj, bootIAM>>
    /\ UNCHANGED nonBootVars

BootStep ==
    \/ ValidateArgs
    \/ LoadTLS
    \/ LoadRootCAs
    \/ InitHelp
    \/ ResolveListenAddress
    \/ CheckPortAvailable
    \/ ApplyEnvOverrides
    \/ SetResourceLimits
    \/ BuildServerConfig
    \/ StartRouterAndListener
    \/ LockForHTTPServer
    \/ InstallHTTPServer
    \/ UnlockAfterHTTPServer
    \/ ServerStart
    \/ ConstructBackendLayer
    \/ FatalBackend
    \/ DecorateLayer
    \/ NewAllSubsystems
    \/ LockForObjectAPI
    \/ InstallGlobalLayer
    \/ UnlockAfterObjectAPI
    \/ InitNotification
    \/ MigrateEncryptedIAM
    \/ InitIAM
    \/ IAMLoad
    \/ InitDiskCache
    \/ LockForCacheAPI
    \/ InstallCacheAPI
    \/ UnlockAfterCacheAPI
    \/ InitDNSFederation
    \/ VerifyFeatureSupport
    \/ PrintStartupBanner
    \/ AwaitSignal
    \/ SignalArrives
    \/ Shutdown
    \/ DeferredStop

----------------------------------------------------------------------------
\* parseGatewaySSE (gateway-common.go)

\* Largest length of an argument of parseGatewaySSE.
MaxSSELen == 5

\* A string is the sequence of its characters. The characters the arguments
\* are made of:
SSEChars == {"s", "S", "3", "c", "e", "-", ";"}

\* The letters in lower case and in upper case, position by position.
LowerLetters == <<"b", "c", "e", "g", "o", "s", "u">>
UpperLetters == <<"B", "C", "E", "G", "O", "S", "U">>

\* minio.GatewaySSES3 and minio.GatewaySSEC, the tokens of MINIO_GATEWAY_SSE.
GatewaySSES3 == <<"S", "3">>
GatewaySSEC == <<"S", "S", "E", "-", "C">>

\* unicode.ToUpper on one character.
ToUpperChar(c) ==
    IF \E i \in 1..Len(LowerLetters) : LowerLetters[i] = c
    THEN UpperLetters[CHOOSE i \in 1..Len(LowerLetters) : LowerLetters[i] = c]
    ELSE c

\* strings.ToUpper.
ToUpper(str) == [i \in 1..Len(str) |-> ToUpperChar(str[i])]

\* strings.Split(str, ";"): the substrings between the separators, one more
\* than there are separators; the empty string gives one empty substring.
RECURSIVE Split(_)
Split(str) ==
    IF \A i \in 1..Len(str) : str[i] # ";"
    THEN <<str>>
    ELSE LET k == CHOOSE i \in 1..Len(str) :
                    str[i] = ";" /\ \A j \in 1..(i - 1) : str[j] # ";"
         IN <<SubSeq(str, 1, k - 1)>> \o Split(SubSeq(str, k + 1, Len(str)))

NoErr == [kind |-> "nil", token |-> <<>>]
\* config.ErrInvalidGWSSEValue(nil).Msg("gateway SSE cannot be (%s) ", v).
ErrInvalidGWSSEValue(v) == [kind |-> "ErrInvalidGWSSEValue", token |-> v]

\* Mutant of SSELoop: the tokens are compared as they were written.
RECURSIVE SSELoop_CaseSensitive(_, _)
SSELoop_CaseSensitive(l, gwSlice) ==
    IF l = <<>> THEN [gwSlice |-> gwSlice, err |-> NoErr]
    ELSE LET v == Head(l) IN
         IF v = <<>> THEN SSELoop_CaseSensitive(Tail(l), gwSlice)
         ELSE IF v \in {GatewaySSES3, GatewaySSEC}
              THEN SSELoop_CaseSensitive(Tail(l), Append(gwSlice, v))
              ELSE [gwSlice |-> <<>>, err |-> ErrInvalidGWSSEValue(v)]

\* The loop of lines 31-45 over the substrings still to visit, with the slice
\* built so far.
RECURSIVE SSELoop(_, _)
SSELoop(l, gwSlice) ==
    IF l = <<>> THEN [gwSlice |-> gwSlice, err |-> NoErr]
    ELSE LET v == ToUpper(Head(l)) IN
         IF v = <<>> THEN SSELoop(Tail(l), gwSlice)
         ELSE IF v \in {GatewaySSES3, GatewaySSEC}
              THEN SSELoop(Tail(l), Append(gwSlice, v))
              ELSE [gwSlice |-> <<>>, err |-> ErrInvalidGWSSEValue(v)]

\* parseGatewaySSE (lines 28-47); a nil slice is the empty sequence.
parseGatewaySSE(str) == SSELoop(Split(str), <<>>)

\* The strings of at most n characters of cs.
StringsUpTo(cs, n) == UNION {[1..k -> cs] : k \in 0..n}

\* Arguments beyond the bounded ones: the values the documentation names.
SSEExamples ==
    { <<"s", "3", ";", "s", "s", "e", "-", "c">>,
      <<"b", "o", "g", "u", "s">>,
      <<"s", "s", "e", "-", "c", ";", ";", "S", "3">> }

SSEUnset == [gwSlice |-> <<>>, err |-> [kind |-> "unset", token |-> <<>>]]

\* No call of parseGatewaySSE.
SSEIdle ==
    /\ ssePc = "idle"
    /\ sseIn = <<>>
    /\ sseOut = SSEUnset

\* A call of parseGatewaySSE with any argument.
InitSSE ==
    /\ ssePc = "call"
    /\ sseIn \in StringsUpTo(SSEChars, MaxSSELen) \cup SSEExamples
    /\ sseOut = SSEUnset

\* The call returns.
ParseGatewaySSEReturns ==
    /\ ssePc = "call"
    /\ ssePc' = "returned"
    /\ sseOut' = parseGatewaySSE(sseIn)
    /\ UNCHANGED <<sseIn, walkVars, bootVars, urlVars, lockVars>>

----------------------------------------------------------------------------
\* ParseGatewayEndpoint (gateway-main.go)

\* Largest number of pieces of an argument of ParseGatewayEndpoint.
MaxURLLen == 4

\* An argument is a sequence of pieces, each standing for the characters it
\* is written with: words of letters, a digit, a colon, the separator "://",
\* a path segment "/p" and a space. No string is written by two different
\* sequences of these pieces.
URLPieces == {"http", "https", "ftp", "HTTP", "h", "9", ":", "://", "/p", " "}
LetterPieces == {"http", "https", "ftp", "HTTP", "h"}

\* The pieces written with a colon, and those written with a slash.
ColonPieces == {":", "://"}
SlashPieces == {"://", "/p"}

\* strings.ToLower on a sequence of pieces.
ToLower(str) == [i \in 1..Len(str) |-> IF str[i] = "HTTP" THEN "http" ELSE str[i]]

\* The first position of str holding a piece of ps, 0 when there is none.
FirstIn(str, ps) ==
    IF \E i \in 1..Len(str) : str[i] \in ps
    THEN CHOOSE i \in 1..Len(str) : str[i] \in ps /\ \A j \in 1..(i - 1) : str[j] \notin ps
    ELSE 0

\* The last position of str holding a piece of ps, 0 when there is none.
LastIn(str, ps) ==
    IF \E i \in 1..Len(str) : str[i] \in ps
    THEN CHOOSE i \in 1..Len(str) :
            str[i] \in ps /\ \A j \in (i + 1)..Len(str) : str[j] \notin ps
    ELSE 0

\* net/url getScheme: the letters, digits before the first colon when they
\* begin with a letter; a colon at the start is an error; any other character
\* before a colon, or no colon, means no scheme. slashes tells that what
\* follows the scheme begins with "//".
getScheme(rawurl) ==
    LET NoScheme == [scheme |-> <<>>, rest |-> rawurl, slashes |-> FALSE, err |-> FALSE]
        k == FirstIn(rawurl, URLPieces \ (LetterPieces \cup {"9"}))
    IN IF rawurl = <<>> \/ k = 0 THEN NoScheme
       ELSE IF rawurl[1] = "9" THEN NoScheme
       ELSE IF rawurl[k] \notin ColonPieces THEN NoScheme
       ELSE IF k = 1 THEN [NoScheme EXCEPT !.err = TRUE]
       ELSE [scheme |-> SubSeq(rawurl, 1, k - 1),
             rest |-> SubSeq(rawurl, k + 1, Len(rawurl)),
             slashes |-> rawurl[k] = "://",
             err |-> FALSE]

\* The authority of what follows "//": up to the next slash.
Authority(rest) ==
    LET k == FirstIn(rest, SlashPieces)
    IN IF k = 0 THEN rest
       ELSE SubSeq(rest, 1, k - 1) \o (IF rest[k] = "://" THEN <<":">> ELSE <<>>)

\* net/url parseHost: what follows the last colon is digits only, and no
\* character of the host is one that a host name cannot hold.
ValidHost(host) ==
    /\ \A i \in 1..Len(host) : host[i] # " "
    /\ LET c == LastIn(host, {":"})
       IN \A j \in (c + 1)..Len(host) : c > 0 => host[j] = "9"

URLError == [Scheme |-> <<>>, Host |-> <<>>, err |-> TRUE]

\* net/url Parse, for strings without query, fragment, user and escapes.
URLParse(rawurl) ==
    LET g == getScheme(rawurl)
        scheme == ToLower(g.scheme)
        rooted == g.slashes \/ (g.rest # <<>> /\ g.rest[1] = "/p")
        colon == FirstIn(g.rest, ColonPieces)
        slash == FirstIn(g.rest, SlashPieces)
    IN IF g.err THEN URLError
       ELSE IF ~rooted
            THEN IF scheme # <<>> THEN [Scheme |-> scheme, Host |-> <<>>, err |-> FALSE]
                 ELSE IF colon > 0 /\ (slash = 0 \/ colon <= slash) THEN URLError
                 ELSE [Scheme |-> <<>>, Host |-> <<>>, err |-> FALSE]
       ELSE IF g.slashes
            THEN IF ValidHost(Authority(g.rest))
                 THEN [Scheme |-> scheme, Host |-> Authority(g.rest), err |-> FALSE]
                 ELSE URLError
       ELSE [Scheme |-> scheme, Host |-> <<>>, err |-> FALSE]

URLNoErr == [kind |-> "nil", scheme |-> <<>>]
\* The error of url.Parse, handed on as it is.
URLParseErr == [kind |-> "url.Parse", scheme |-> <<>>]
\* fmt.Errorf("Unrecognized scheme %s", u.Scheme).
UnrecognizedScheme(scheme) == [kind |-> "Unrecognized scheme", scheme |-> scheme]

\* Mutant of ParseGatewayEndpoint: an argument without scheme is taken as http.
ParseGatewayEndpoint_DefaultHTTP(arg) ==
    LET schemeSpecified == \E i \in 1..Len(arg) : arg[i] = "://"
        raw == IF schemeSpecified THEN arg ELSE <<"http", "://">> \o arg
        u == URLParse(raw)
    IN IF u.err THEN [host |-> <<>>, secure |-> FALSE, err |-> URLParseErr]
       ELSE IF u.Scheme = <<"http">>
            THEN [host |-> u.Host, secure |-> FALSE, err |-> URLNoErr]
       ELSE IF u.Scheme = <<"https">>
            THEN [host |-> u.Host, secure |-> TRUE, err |-> URLNoErr]
       ELSE [host |-> <<>>, secure |-> FALSE, err |-> UnrecognizedScheme(u.Scheme)]

\* ParseGatewayEndpoint (lines 104-125).
ParseGatewayEndpoint(arg) ==
    LET schemeSpecified == \E i \in 1..Len(arg) : arg[i] = "://"
        raw == IF schemeSpecified THEN arg ELSE <<"https", "://">> \o arg
        u == URLParse(raw)
    IN IF u.err THEN [host |-> <<>>, secure |-> FALSE, err |-> URLParseErr]
       ELSE IF u.Scheme = <<"http">>
            THEN [host |-> u.Host, secure |-> FALSE, err |-> URLNoErr]
       ELSE IF u.Scheme = <<"https">>
            THEN [host |-> u.Host, secure |-> TRUE, err |-> URLNoErr]
       ELSE [host |-> <<>>, secure |-> FALSE, err |-> UnrecognizedScheme(u.Scheme)]

URLUnset == [host |-> <<>>, secure |-> FALSE, err |-> [kind |-> "unset", scheme |-> <<>>]]

\* No call of ParseGatewayEndpoint.
URLIdle ==
    /\ urlPc = "idle"
    /\ urlIn = <<>>
    /\ urlOut = URLUnset

\* A call of ParseGatewayEndpoint with any argument.
InitURL ==
    /\ urlPc = "call"
    /\ urlIn \in StringsUpTo(URLPieces, MaxURLLen)
    /\ urlOut = URLUnset

\* The call returns.
ParseGatewayEndpointReturns ==
    /\ urlPc = "call"
    /\ urlPc' = "returned"
    /\ urlOut' = ParseGatewayEndpoint(urlIn)
    /\ UNCHANGED <<urlIn, walkVars, bootVars, sseVars, lockVars>>

----------------------------------------------------------------------------
\* GatewayLocker.NewNSLock (gateway-main.go)

\* The goroutines that take locks, and the scopes they can name.
LockCallers == {"c1", "c2"}
LockBuckets == {"bucketA", "bucketB"}
LockObjects == {"obj1", "obj2"}
LockModes == {"exclusive", "shared"}

\* The decorated layer whose locks are taken.
DecoratedLayer == NewGatewayLayerWithLocker(BackendLayer("s3"))

NoLock == [ns |-> "none", volume |-> "", paths |-> {}]

\* Mutant of NewNSLock: the objects are not handed on.
NewNSLock_DropsObjects(l, bucket, objects) ==
    [ns |-> l.nsMutex, volume |-> bucket, paths |-> {}]

\* GatewayLocker.NewNSLock (lines 46-48): the lock of the layer's own lock
\* map for the bucket and the objects given.
NewNSLock(l, bucket, objects) ==
    [ns |-> l.nsMutex, volume |-> bucket, paths |-> objects]

LockerIdle == [pc |-> "idle", bucket |-> "", objects |-> {}, mode |-> "none",
               inst |-> NoLock]

\* No lock asked for.
LocksIdle == lockers = [c \in LockCallers |-> LockerIdle]

\* Caller c asks the decorated layer for a lock and starts acquiring it.
NewNSLockCall(c) ==
    /\ lockers[c].pc = "idle"
    /\ \E b \in LockBuckets, os \in (SUBSET LockObjects) \ {{}}, m \in LockModes :
        lockers' = [lockers EXCEPT ![c] =
            [pc |-> "waiting", bucket |-> b, objects |-> os, mode |-> m,
             inst |-> NewNSLock(DecoratedLayer, b, os)]]
    /\ UNCHANGED <<walkVars, bootVars, sseVars, urlVars>>

\* The lock map's rule: two locks of one map on the same volume with a path
\* in common exclude each other unless both are shared.
Conflict(c, d) ==
    /\ lockers[c].inst.ns = lockers[d].inst.ns
    /\ lockers[c].inst.volume = lockers[d].inst.volume
    /\ lockers[c].inst.paths \cap lockers[d].inst.paths # {}
    /\ "exclusive" \in {lockers[c].mode, lockers[d].mode}

\* GetLock / GetRLock of caller c returns: no lock held by another caller
\* excludes it.
Acquire(c) ==
    /\ lockers[c].pc = "waiting"
    /\ \A d \in LockCallers \ {c} : lockers[d].pc = "holding" => ~Conflict(c, d)
    /\ lockers' = [lockers EXCEPT ![c].pc = "holding"]
    /\ UNCHANGED <<walkVars, bootVars, sseVars, urlVars>>

\* Unlock / RUnlock of caller c.
Release(c) ==
    /\ lockers[c].pc = "holding"
    /\ lockers' = [lockers EXCEPT ![c] = LockerIdle]
    /\ UNCHANGED <<walkVars, bootVars, sseVars, urlVars>>

LockStep ==
    \/ \E c \in LockCallers : NewNSLockCall(c)
    \/ \E c \in LockCallers : Acquire(c)
    \/ \E c \in LockCallers : Release(c)

\* A walk on a layer whatever the bootstrap left behind: the bootstrap state
\* is not read by Walk.
WalkInit == InitWalk /\ InitBoot /\ SSEIdle /\ URLIdle /\ LocksIdle

SpecWalk == WalkInit /\ [][WalkStep]_vars

\* The steps of the fallback goroutine.
ProducerStep ==
    \/ ListObjectsOk
    \/ ListObjectsErr
    \/ SendObj
    \/ CtxDone
    \/ CheckTruncated

\* The goroutine is scheduled fairly and every ListObjects call returns: a
\* goroutine that can go on eventually does. Nothing is assumed of the
\* consumer or of the owner of ctx.
FairSpecWalk == WalkInit /\ [][WalkStep]_vars /\ WF_vars(ProducerStep)

\* The walk is not running during the bootstrap.
WalkIdle == InitWalk /\ walkBucket = "b1" /\ walkPrefix = "" /\ sinkCap = 0

BootInit == InitBoot /\ WalkIdle /\ SSEIdle /\ URLIdle /\ LocksIdle

SpecBoot == BootInit /\ [][BootStep]_vars

\* One call of parseGatewaySSE, bootstrap and walk not running.
SSEInit == InitSSE /\ InitBoot /\ WalkIdle /\ URLIdle /\ LocksIdle

SpecSSE == SSEInit /\ [][ParseGatewaySSEReturns]_vars

\* One call of ParseGatewayEndpoint, bootstrap and walk not running.
URLInit == InitURL /\ InitBoot /\ WalkIdle /\ SSEIdle /\ LocksIdle

SpecURL == URLInit /\ [][ParseGatewayEndpointReturns]_vars

\* The callers of NewNSLock on one decorated layer, bootstrap and walk not
\* running.
LockInit == LocksIdle /\ InitBoot /\ WalkIdle /\ SSEIdle /\ URLIdle

SpecLock == LockInit /\ [][LockStep]_vars

----------------------------------------------------------------------------
\* Properties of GatewayLocker.Walk (checked under SpecWalk)

\* C1: in the fallback walk the results channel is closed exactly once in every
\* run of the goroutine, whichever way its loop ends (last page not truncated,
\* error of ListObjects, cancellation seen in the select): never closed twice,
\* never closed while the goroutine still runs, never open once it has ended.
C1_SinkClosedExactlyOnce ==
    /\ closeCount <= 1
    /\ ppc = "done" => closeCount = 1 /\ exitVia \in {"complete", "listerr", "cancel"}
    /\ ppc # "done" => closeCount = 0 /\ exitVia = "none"

\* The goroutine ended on a cancellation in the middle of a page, and the
\* channel is closed.
C1_Witness ==
    /\ ppc = "done"
    /\ exitVia = "cancel"
    /\ closeCount = 1
    /\ pushed # <<>>
    /\ Len(pushed) < Len(Flatten(pages))

\* C2: when every ListObjects call succeeded and the loop ended on a page
\* that is not truncated, the pages returned are N >= 1 pages of which exactly
\* the last is not truncated, what was sent is the objects of all the pages,
\* page after page and in each page's order, the channel is closed only then,
\* and a consumer that read up to the closure received exactly that. A walk
\* without error and without cancellation ends in no other way.
C2_AllPagesDelivered ==
    /\ exitVia = "complete" =>
        /\ Len(pages) >= 1
        /\ \A i \in 1..Len(pages) : pages[i].IsTruncated = (i < Len(pages))
        /\ pushed = Flatten(pages)
        /\ received \o sinkBuf = pushed
        /\ closeCount = 1
        /\ cpc = "done" => received = Flatten(pages)
    /\ closeCount > 0 /\ ~cancelled /\ logged = <<>> =>
        exitVia = "complete" /\ pushed = Flatten(pages)
    /\ cpc = "done" /\ ~cancelled /\ logged = <<>> => received = Flatten(pages)

\* Two pages, no error, no cancellation, and the consumer saw the closure
\* after receiving at least three objects.
C2_Witness ==
    /\ cpc = "done"
    /\ ~cancelled
    /\ logged = <<>>
    /\ Len(pages) = MaxPages
    /\ Len(received) >= 3
    /\ received = Flatten(pages)

\* C3 as stated: once the context is cancelled, nothing more is sent.
C3_NoSendAfterCancel == [][cancelled => pushed' = pushed]_vars

\* C3 as amended: once the goroutine has taken the Done case of its select it
\* sends nothing more, makes no further ListObjects call and logs nothing;
\* taking the Done case needs the context to be cancelled, logs no error and
\* closes the channel; Walk does not return an error; and everything the
\* consumer received was sent before the Done case was taken.
C3_NoSendAfterCancelObserved ==
    [][ /\ exitVia = "cancel" =>
            /\ pushed' = pushed
            /\ calls' = calls
            /\ logged' = logged
            /\ IsPrefix(received', pushed)
            /\ walkRet' \in {"pending", "nil"}
        /\ exitVia # "cancel" /\ exitVia' = "cancel" =>
            /\ cancelled
            /\ pushed' = pushed
            /\ logged' = logged
            /\ closeCount' = closeCount + 1
            /\ ppc' = "done"
      ]_vars

\* The goroutine saw the cancellation with part of a page sent, and the
\* consumer has received all that was sent.
C3_Witness ==
    /\ exitVia = "cancel"
    /\ pushed # <<>>
    /\ Len(pushed) < Len(Flatten(pages))
    /\ received = pushed
    /\ logged = <<>>

\* C4: Walk calls the native Walk of the inner layer first, once, and
\* dispatches on its result: nil, no goroutine and no ListObjects call, Walk
\* returns nil; NotImplemented, the goroutine is started and Walk returns nil;
\* any other error, no goroutine, no ListObjects call, and Walk returns that
\* error.
C4_NativeFirstThenDispatch ==
    /\ nativeCalls <= 1
    /\ nativeCalls = 0 => ppc = "idle" /\ calls = <<>> /\ walkRet = "pending"
    /\ nativeCalls = 1 => nativeErr \in NativeResults
    /\ nativeErr = "nil" => ppc = "idle" /\ calls = <<>> /\ walkRet = "nil"
    /\ nativeErr = NotImplemented => ppc # "idle" /\ walkRet \in {"pending", "nil"}
    /\ nativeErr \in NativeResults \ {"nil", NotImplemented} =>
        ppc = "idle" /\ calls = <<>> /\ walkRet = nativeErr
    /\ wpc = "returned" => walkRet # "pending"

\* The native Walk failed with an error that is not NotImplemented and Walk
\* returned it.
C4_Witness ==
    /\ wpc = "returned"
    /\ nativeErr = "ErrTimeout"
    /\ walkRet = "ErrTimeout"

\* C5: when a ListObjects call fails, the error is logged once and goes
\* nowhere else: Walk returns nil, the failing call is the last one, all the
\* objects of the pages returned before it were sent and are received or
\* still in the channel, the channel is closed, and a consumer that read up
\* to the closure received exactly the objects of those pages.
C5_ListErrorOnlyEndsStream ==
    logged # <<>> =>
        /\ exitVia = "listerr"
        /\ ppc = "done"
        /\ Len(logged) = 1
        /\ Len(calls) = Len(pages) + 1
        /\ walkRet \in {"pending", "nil"}
        /\ wpc = "returned" => walkRet = "nil"
        /\ pushed = Flatten(pages)
        /\ received \o sinkBuf = pushed
        /\ closeCount = 1
        /\ cpc = "done" => received = Flatten(pages)

\* The second call failed after a first page with objects, and the consumer
\* saw the closure.
C5_Witness ==
    /\ exitVia = "listerr"
    /\ Len(calls) = 2
    /\ Len(pages) = 1
    /\ received = pages[1].Objects
    /\ received # <<>>
    /\ cpc = "done"
    /\ walkRet = "nil"

----------------------------------------------------------------------------
\* Properties of StartGateway (checked under SpecBoot)

Executed(s) == \E i \in 1..Len(trace) : trace[i] = s

\* s was executed, and before t if t was executed.
ExecutedBefore(s, t) ==
    \E i \in 1..Len(trace) :
        /\ trace[i] = s
        /\ \A j \in 1..Len(trace) : trace[j] = t => i < j

\* The bootstrap states as the specification lists them.
SpecOrder ==
    << "ValidateArgs", "LoadTLS", "LoadRootCAs", "InitHelp", "ResolveListenAddress",
       "CheckPortAvailable", "ApplyEnvOverrides", "SetResourceLimits",
       "BuildServerConfig", "StartRouterAndListener", "ConstructBackendLayer",
       "DecorateLayer", "InstallGlobalLayer", "InitNotification",
       "MigrateEncryptedIAM", "InitIAM", "InitDiskCache", "InitDNSFederation",
       "VerifyFeatureSupport", "PrintStartupBanner", "AwaitSignal", "Shutdown" >>

SpecStates == {SpecOrder[i] : i \in 1..Len(SpecOrder)}

\* The states whose statements stand under a condition in the code.
ConditionalStates ==
    {"InitNotification", "MigrateEncryptedIAM", "InitIAM", "InitDiskCache",
     "InitDNSFederation", "PrintStartupBanner"}

\* The constructions and initialisations of subsystems.
SubsystemStates ==
    {"NewAllSubsystems", "InitNotification", "MigrateEncryptedIAM", "InitIAM",
     "InitDiskCache", "InitDNSFederation"}

\* C6: with the etcd client configured, the IAM store initialisation and the
\* background IAM load start only after the migration to the encrypted
\* backend was executed and succeeded; after a failed migration they never
\* start (the process has ended); and while the migration is still to run
\* or running, no IAM initialisation has started.
C6_MigrationBeforeIAM ==
    /\ GlobalEtcdClient # "nil" /\ (iamStoreInit \/ iamBg # "none" \/ Executed("InitIAM")) =>
        /\ migrateResult = "ok"
        /\ ExecutedBefore("MigrateEncryptedIAM", "InitIAM")
    /\ migrateResult = "failed" =>
        ~iamStoreInit /\ iamBg = "none" /\ ~Executed("InitIAM") /\ bpc = "Exited"
    /\ ~Executed("MigrateEncryptedIAM") => ~iamStoreInit /\ iamBg = "none"

\* etcd is configured, the migration succeeded and the background load runs.
C6_Witness ==
    /\ GlobalEtcdClient = "etcd"
    /\ migrateResult = "ok"
    /\ iamStoreInit
    /\ iamBg = "running"

\* C7: once NewGatewayLayer has returned an error, the global object layer
\* keeps its initial nil value, no subsystem is constructed or initialised,
\* nothing runs but the fatal report, and the process ends with code 1 and
\* the message of the backend failure.
C7_ConstructFailureInstallsNothing ==
    constructFailed =>
        /\ GlobalObjectAPI = Nil
        /\ newObject = Nil
        /\ \A s \in SubsystemStates : ~Executed(s)
        /\ ~iamStoreInit /\ iamBg = "none" /\ migrateResult = "none"
        /\ ~GlobalCacheObjectAPI
        /\ trace[Len(trace)] = "ConstructBackendLayer"
        /\ bpc \in {"FatalBackend", "Exited"}
        /\ bpc = "Exited" =>
            /\ exitCode = 1
            /\ exitCause = "ConstructBackendLayer"
            /\ fatalMsg = "Unable to initialize gateway backend"

\* The process ended on a failed backend construction.
C7_Witness ==
    /\ constructFailed
    /\ bpc = "Exited"
    /\ exitCode = 1
    /\ GlobalHTTPServer = "httpServer"

C9_InstalledLayerIsDecorated ==
    /\ bpc \in {"InitNotification", "MigrateEncryptedIAM", "InitIAM", "InitDiskCache",
                "InitDNSFederation", "VerifyFeatureSupport", "PrintStartupBanner",
                "AwaitSignal", "Blocked"} => Executed("InstallGlobalLayer")
    /\ Executed("InstallGlobalLayer") =>
        /\ GlobalObjectAPI # Nil
        /\ GlobalObjectAPI.kind = "GatewayLocker"
        /\ GlobalObjectAPI.ObjectLayer = BackendLayer(gatewayName)
    /\ ~Executed("InstallGlobalLayer") /\ bpc # "InstallGlobalLayer.Unlock" =>
        GlobalObjectAPI = Nil

\* The main goroutine waits for a signal with the decorated layer installed.
C9_Witness ==
    /\ bpc = "Blocked"
    /\ GlobalObjectAPI.kind = "GatewayLocker"

Rank(s) == IndexIn(SpecOrder, s)

\* The executed states that the specification lists, in the order executed.
SpecTrace == SelectSeq(trace, LAMBDA s : s \in SpecStates)

\* C10: the states executed are states of the list, in strictly increasing
\* position of the list (none twice, none before an earlier one), every
\* state of the list before an executed one was itself executed unless it
\* is conditional, and a failed state is the last one executed: the process
\* has ended with code 1 and nothing runs after it.
C10_SingleForwardPass ==
    /\ \A i \in 1..Len(trace) : trace[i] \in SpecStates \cup {"NewAllSubsystems"}
    /\ \A i, j \in 1..Len(SpecTrace) : i < j => Rank(SpecTrace[i]) < Rank(SpecTrace[j])
    /\ \A i \in 1..Len(SpecTrace) : \A r \in 1..(Rank(SpecTrace[i]) - 1) :
        SpecOrder[r] \notin ConditionalStates => Executed(SpecOrder[r])
    /\ exitCause # "none" =>
        /\ trace[Len(trace)] = exitCause
        /\ bpc = "Exited"
        /\ exitCode = 1
    /\ bpc = "Exited" => exitCode \in {0, 1}
    /\ bpc # "Exited" => exitCode = -1 /\ exitCause = "none"

\* A bootstrap in which every state of the list was executed, down to the
\* shutdown on a signal.
C10_Witness ==
    /\ bpc = "Exited"
    /\ exitCode = 0
    /\ SpecTrace = SpecOrder

\* The states whose statements stand before the installation of the global
\* object layer.
PreInstallStates ==
    {CodeOrder[i] : i \in 1..(IndexIn(CodeOrder, "InstallGlobalLayer") - 1)}

\* Once a state before InstallGlobalLayer has failed, no step changes anything.
NothingRunsAfterFailure ==
    [][(exitCause \in PreInstallStates) => (vars' = vars)]_vars

\* C11: a failure in a state before InstallGlobalLayer ends the process at
\* once with code 1 and a message: the failed state is the last one executed,
\* only states standing before it in the code were executed, nothing of the
\* object layer, the cache layer or IAM was installed, and from then on no
\* step of any goroutine changes anything; after a failed backend
\* construction only the fatal report runs.
C11_FailureBeforeInstallEndsProcess ==
    /\ [](exitCause \in PreInstallStates =>
            /\ bpc = "Exited"
            /\ exitCode = 1
            /\ fatalMsg # ""
            /\ trace[Len(trace)] = exitCause
            /\ \A i \in 1..(Len(trace) - 1) :
                IndexIn(CodeOrder, trace[i]) < IndexIn(CodeOrder, exitCause)
            /\ GlobalObjectAPI = Nil
            /\ ~GlobalCacheObjectAPI
            /\ ~iamStoreInit /\ iamBg = "none")
    /\ [](constructFailed => bpc \in {"FatalBackend", "Exited"})
    /\ NothingRunsAfterFailure

\* The web router could not be configured: the process ended with the server
\* configuration installed and no listener started.
C11_Witness ==
    /\ exitCause = "StartRouterAndListener"
    /\ exitCode = 1
    /\ GlobalServerConfig
    /\ srv = "none"

\* The states in which a configuration error is detected, and the messages.
ConfigErrorStates == {"LoadTLS", "LoadRootCAs", "CheckPortAvailable", "ApplyEnvOverrides"}

ConfigErrorMsgs ==
    {"Invalid TLS certificate file", "Failed to read root CAs",
     "Unable to start the gateway",
     "Unable to validate credentials inherited from the shell environment",
     "Unable to parse MINIO_GATEWAY_SSE value"}

\* C12: a configuration error (TLS material, root CAs, listen port,
\* credentials, MINIO_GATEWAY_SSE) ends the process with code 1 with no
\* listener started and no server handle installed; and once the listener was
\* started, every state detecting such an error was executed before, and no
\* configuration error is reported.
C12_ConfigErrorBeforeListener ==
    /\ fatalMsg \in ConfigErrorMsgs => exitCause \in ConfigErrorStates
    /\ exitCause \in ConfigErrorStates =>
        /\ fatalMsg \in ConfigErrorMsgs
        /\ bpc = "Exited"
        /\ exitCode = 1
        /\ srv = "none"
        /\ GlobalHTTPServer = "nil"
        /\ ~sigNotify
        /\ ~Executed("StartRouterAndListener")
    /\ srv # "none" =>
        /\ fatalMsg \notin ConfigErrorMsgs
        /\ exitCause \notin ConfigErrorStates
        /\ \A s \in ConfigErrorStates : ExecutedBefore(s, "StartRouterAndListener")

\* The value of MINIO_GATEWAY_SSE could not be parsed: the process ended
\* before any listener.
C12_Witness ==
    /\ fatalMsg = "Unable to parse MINIO_GATEWAY_SSE value"
    /\ exitCode = 1
    /\ srv = "none"

\* The states of the main goroutine after the start of the IAM load.
PostIAMStates ==
    {"InitDiskCache", "InitDiskCache.Lock", "InitDiskCache.Write", "InitDiskCache.Unlock",
     "InitDNSFederation", "VerifyFeatureSupport", "PrintStartupBanner", "AwaitSignal"}

\* A step of the main goroutine in one of these states.
PostIAMStep ==
    \/ InitDiskCache
    \/ LockForCacheAPI
    \/ InstallCacheAPI
    \/ UnlockAfterCacheAPI
    \/ InitDNSFederation
    \/ VerifyFeatureSupport
    \/ PrintStartupBanner
    \/ AwaitSignal

\* The end of the background load changes nothing but its own outcome.
IAMLoadTouchesNothing ==
    [][(iamBg = "running" /\ iamBg' # iamBg) =>
        UNCHANGED <<bootCtl, bootCfg, bootSrv, bootObj, migrateResult, iamStoreInit,
                    dnsCacheStopped>>]_vars

\* C13: the IAM load runs beside the main goroutine, which never waits for
\* it: in each state from InitDiskCache to AwaitSignal the main goroutine can
\* take its step whatever the load has come to, the load ends in a step of
\* its own that changes nothing else (no handle, not the listener, not the
\* position or the exit code of the main goroutine), and a failed load
\* leaves the installed handles in place.
C13_IAMLoadInBackground ==
    /\ [](Running /\ bpc \in PostIAMStates => ENABLED PostIAMStep)
    /\ [](iamBg # "none" => enableIAMOps /\ iamStoreInit /\ Executed("InitIAM"))
    /\ [](iamBg = "failed" =>
            /\ GlobalObjectAPI.kind = "GatewayLocker"
            /\ GlobalHTTPServer = "httpServer"
            /\ exitCause \notin {"InitIAM"})
    /\ IAMLoadTouchesNothing

\* The load failed, and the main goroutine waits for a signal with the
\* listener up and the decorated layer installed.
C13_Witness ==
    /\ iamBg = "failed"
    /\ bpc = "Blocked"
    /\ srv = "listening"
    /\ exitCode = -1
    /\ GlobalObjectAPI.kind = "GatewayLocker"

\* The initialisations of subsystems that are handed the object layer.
ObjectLayerInits ==
    {"InitNotification", "InitIAM", "InitDNSFederation", "VerifyFeatureSupport"}

\* The global object layer and the global HTTP server are written only in
\* steps that begin and end with the main goroutine holding the mutex.
HandleWritesUnderMutex ==
    [][(GlobalObjectAPI' # GlobalObjectAPI \/ GlobalHTTPServer' # GlobalHTTPServer) =>
        (GlobalObjLayerMutex = "main" /\ GlobalObjLayerMutex' = "main")]_vars

\* When an initialisation handed the object layer is reached, the object
\* layer was installed before and the mutex is released.
InstalledBeforeInits ==
    /\ \A s \in ObjectLayerInits :
        (bpc = s \/ Executed(s)) =>
            /\ ExecutedBefore("InstallGlobalLayer", s)
            /\ GlobalObjectAPI # Nil
    /\ (iamStoreInit \/ iamBg # "none") => ExecutedBefore("InstallGlobalLayer", "InitIAM")
    /\ bpc \in ObjectLayerInits => GlobalObjLayerMutex = "free"
    /\ GlobalObjLayerMutex = "main" =>
        bpc \in {"InstallHTTPServer.Write", "InstallHTTPServer.Unlock",
                 "InstallGlobalLayer.Write", "InstallGlobalLayer.Unlock",
                 "InitDiskCache.Write", "InitDiskCache.Unlock"}

\* C14 as stated: the two handles are written under the mutex, and the object
\* layer is installed before every initialisation handed the object layer
\* and before every construction of subsystems.
C14_InstallBeforeInitsAndConstruction ==
    /\ HandleWritesUnderMutex
    /\ []InstalledBeforeInits
    /\ [](Executed("NewAllSubsystems") =>
            ExecutedBefore("InstallGlobalLayer", "NewAllSubsystems"))

\* C14 as amended: the two handles are written under the mutex, the object
\* layer is installed (and the mutex released) before every initialisation
\* handed the object layer, and the construction of the subsystems
\* (NewAllSubsystems) was executed before the installation, with the global
\* object layer still nil.
C14_InstallBeforeInits ==
    /\ HandleWritesUnderMutex
    /\ []InstalledBeforeInits
    /\ [](Executed("InstallGlobalLayer") \/ GlobalObjectAPI # Nil =>
            ExecutedBefore("NewAllSubsystems", "InstallGlobalLayer"))
    /\ [](bpc = "NewAllSubsystems" => GlobalObjectAPI = Nil)

\* Every initialisation handed the object layer was executed, with the
\* decorated layer installed and the mutex free.
C14_Witness ==
    /\ \A s \in ObjectLayerInits : Executed(s)
    /\ iamBg # "none"
    /\ GlobalObjectAPI.kind = "GatewayLocker"
    /\ GlobalHTTPServer = "httpServer"
    /\ GlobalObjLayerMutex = "free"

\* The main goroutine leaves the wait only with a signal delivered, and only
\* into the shutdown.
LeavesWaitOnSignalOnly ==
    [][(bpc = "Blocked" /\ bpc' # "Blocked") =>
        (sig \in Signals /\ sigNotify /\ bpc' = "Return")]_vars

----------------------------------------------------------------------------
\* The marker protocol and the termination of the fallback walk

\* C19: the first ListObjects call of a walk has the empty marker, every later
\* call has the NextMarker of the page returned by the call before it, and
\* that page was truncated (no call follows a page that is not truncated);
\* every call has the bucket and the prefix of the walk, the empty delimiter
\* and max-keys 0; only the last call can have failed.
C19_MarkerProtocol ==
    /\ Len(calls) - Len(pages) \in {0, 1}
    /\ Len(calls) > Len(pages) => logged # <<>> /\ ppc = "done"
    /\ calls # <<>> => calls[1].marker = ""
    /\ \A i \in 2..Len(calls) :
        /\ calls[i].marker = pages[i - 1].NextMarker
        /\ pages[i - 1].IsTruncated
    /\ \A i \in 1..Len(calls) :
        /\ calls[i].bucket = walkBucket
        /\ calls[i].prefix = walkPrefix
        /\ calls[i].delimiter = ""
        /\ calls[i].maxKeys = 0
    /\ ppc = "list" =>
        marker = IF pages = <<>> THEN "" ELSE pages[Len(pages)].NextMarker

\* A second call was made, with the non-empty marker the first page gave.
C19_Witness ==
    /\ Len(calls) = 2
    /\ pages[1].NextMarker = "m1"
    /\ calls[2].marker = "m1"
    /\ calls[2].bucket = "b2"
    /\ calls[2].prefix = "p/"

\* The consumer keeps reading: it never stops, and an object waiting in the
\* channel is eventually received.
ConsumerKeepsReading == [](cpc # "gone") /\ WF_vars(Receive)

ProducerEnded == ppc = "done" /\ closeCount = 1

\* C20: with a backend whose calls return and that ends the listing within
\* MaxPages pages, and a fairly scheduled goroutine: once ctx is cancelled, a
\* started goroutine eventually ends and closes the channel, whatever the
\* consumer does (also when it never reads again and the goroutine is blocked
\* in its send); and when the consumer keeps reading, a started goroutine
\* eventually ends and closes the channel, cancelled or not.
C20_SinkEventuallyClosed ==
    /\ (ppc # "idle" /\ cancelled) ~> ProducerEnded
    /\ ConsumerKeepsReading => ((ppc # "idle") ~> ProducerEnded)

\* The goroutine ended on the cancellation while the consumer had stopped
\* reading and an object was still to be sent.
C20_Witness ==
    /\ ProducerEnded
    /\ exitVia = "cancel"
    /\ cpc = "gone"
    /\ Len(pushed) < Len(Flatten(pages))

----------------------------------------------------------------------------
\* Properties of parseGatewaySSE (checked under SpecSSE)

\* The non-empty tokens of the argument, upper-cased, in the order written.
UpperTokens(str) == SelectSeq(Split(ToUpper(str)), LAMBDA t : t # <<>>)

Recognised == {GatewaySSES3, GatewaySSEC}

\* C17: when every non-empty token of the argument is, upper-cased, one of
\* the two recognised tokens, the call returns no error and those tokens
\* upper-cased, in the order written, the empty ones skipped ("s3;sse-c"
\* gives the two tokens, "" the empty result); otherwise it returns an error
\* naming the first unrecognised token upper-cased ("bogus" gives BOGUS) and
\* no token at all.
C17_ParseGatewaySSE ==
    ssePc = "returned" =>
        LET toks == UpperTokens(sseIn)
            bad == {i \in 1..Len(toks) : toks[i] \notin Recognised}
        IN /\ bad = {} =>
                /\ sseOut.err = NoErr
                /\ sseOut.gwSlice = toks
           /\ bad # {} =>
                /\ sseOut.err.kind = "ErrInvalidGWSSEValue"
                /\ sseOut.err.token = toks[CHOOSE i \in bad : \A j \in bad : i <= j]
                /\ sseOut.gwSlice = <<>>
           /\ sseIn = <<"s", "3", ";", "s", "s", "e", "-", "c">> =>
                sseOut = [gwSlice |-> <<GatewaySSES3, GatewaySSEC>>, err |-> NoErr]
           /\ sseIn = <<>> => sseOut = [gwSlice |-> <<>>, err |-> NoErr]
           /\ sseIn = <<"b", "o", "g", "u", "s">> =>
                /\ sseOut.err.token = <<"B", "O", "G", "U", "S">>
                /\ sseOut.gwSlice = <<>>

\* A call with tokens in lower case, an empty token among them, returned the
\* tokens upper-cased.
C17_Witness ==
    /\ ssePc = "returned"
    /\ sseIn = <<"s", "s", "e", "-", "c", ";", ";", "S", "3">>
    /\ sseOut.err = NoErr
    /\ sseOut.gwSlice = <<GatewaySSEC, GatewaySSES3>>

----------------------------------------------------------------------------
\* Properties of ParseGatewayEndpoint (checked under SpecURL)

\* The argument holds no "://".
NoSchemeGiven == \A i \in 1..Len(urlIn) : urlIn[i] # "://"

\* The argument is a word, "://" and more; the word in lower case.
GivenScheme ==
    IF Len(urlIn) >= 2 /\ urlIn[1] \in LetterPieces /\ urlIn[2] = "://"
    THEN ToLower(<<urlIn[1]>>)
    ELSE <<>>

\* What the argument holds before its first slash, the scheme and "://" left
\* out.
GivenHost ==
    IF NoSchemeGiven THEN Authority(urlIn) ELSE Authority(SubSeq(urlIn, 3, Len(urlIn)))

\* C18 as stated: an argument without "://" gives secure = true and its
\* host; scheme http gives secure = false, scheme https secure = true; any
\* other scheme gives an error naming it, the empty host and secure = false.
C18_EndpointSchemes ==
    urlPc = "returned" =>
        /\ NoSchemeGiven =>
            urlOut = [host |-> GivenHost, secure |-> TRUE, err |-> URLNoErr]
        /\ GivenScheme = <<"http">> => ~urlOut.secure
        /\ GivenScheme = <<"https">> => urlOut.secure
        /\ GivenScheme \notin {<<>>, <<"http">>, <<"https">>} =>
            urlOut = [host |-> <<>>, secure |-> FALSE,
                      err |-> UnrecognizedScheme(GivenScheme)]

\* C18 as amended: an argument that url.Parse rejects (as it is when it
\* holds "://", after "https://" when it does not) gives the error of
\* url.Parse, the empty host and secure = false. Of the others: one without
\* "://" gives secure = true and its host; scheme http gives secure = false
\* and the host, scheme https secure = true and the host; any other scheme
\* gives an error naming it, the empty host and secure = false. An argument
\* without "://" is rejected exactly when its host holds a character no host
\* name holds or a port that is not a number.
C18_EndpointSchemesWellFormed ==
    urlPc = "returned" =>
        LET raw == IF NoSchemeGiven THEN <<"https", "://">> \o urlIn ELSE urlIn
            rejected == URLParse(raw).err
        IN /\ rejected =>
                urlOut = [host |-> <<>>, secure |-> FALSE, err |-> URLParseErr]
           /\ NoSchemeGiven => (rejected <=> ~ValidHost(GivenHost))
           /\ ~rejected /\ NoSchemeGiven =>
                urlOut = [host |-> GivenHost, secure |-> TRUE, err |-> URLNoErr]
           /\ ~rejected /\ GivenScheme = <<"http">> =>
                urlOut = [host |-> GivenHost, secure |-> FALSE, err |-> URLNoErr]
           /\ ~rejected /\ GivenScheme = <<"https">> =>
                urlOut = [host |-> GivenHost, secure |-> TRUE, err |-> URLNoErr]
           /\ ~rejected /\ GivenScheme \notin {<<>>, <<"http">>, <<"https">>} =>
                urlOut = [host |-> <<>>, secure |-> FALSE,
                          err |-> UnrecognizedScheme(GivenScheme)]
           /\ urlOut.err # URLNoErr => urlOut.host = <<>> /\ ~urlOut.secure

\* A host and a port without scheme: secure, with host and port as the host.
C18_Witness ==
    /\ urlPc = "returned"
    /\ urlIn = <<"h", ":", "9", "/p">>
    /\ urlOut = [host |-> <<"h", ":", "9">>, secure |-> TRUE, err |-> URLNoErr]

----------------------------------------------------------------------------
\* Properties of the locks of a decorated layer (checked under SpecLock)

Holds(c) == lockers[c].pc = "holding"

\* The scopes callers c and d asked for have a (bucket, object) in common.
Overlap(c, d) ==
    /\ lockers[c].bucket = lockers[d].bucket
    /\ lockers[c].objects \cap lockers[d].objects # {}

\* Another caller holds a lock that excludes the one c waits for.
Excluded(c) ==
    \E d \in LockCallers \ {c} :
        /\ Holds(d)
        /\ Overlap(c, d)
        /\ "exclusive" \in {lockers[c].mode, lockers[d].mode}

\* C15: of the locks taken through NewNSLock of one decorated layer, two
\* held on scopes with a (bucket, object) in common are both shared (so
\* never two exclusive ones, never an exclusive with a shared one); a caller
\* waiting for a lock that a held lock excludes cannot get it while that
\* lock is held; and a caller waiting for a lock that no held lock excludes
\* (so a shared one beside shared ones) can get it at once.
C15_NamespaceLockExclusion ==
    /\ \A c, d \in LockCallers :
        c # d /\ Holds(c) /\ Holds(d) /\ Overlap(c, d) =>
            lockers[c].mode = "shared" /\ lockers[d].mode = "shared"
    /\ \A c \in LockCallers :
        lockers[c].pc = "waiting" => (Excluded(c) <=> ~ENABLED Acquire(c))

\* One caller holds the exclusive lock on two objects of a bucket and the
\* other waits for the exclusive lock on one of them.
C15_Witness ==
    /\ Holds("c1")
    /\ lockers["c1"].mode = "exclusive"
    /\ lockers["c1"].bucket = "bucketA"
    /\ lockers["c1"].objects = {"obj1", "obj2"}
    /\ lockers["c2"].pc = "waiting"
    /\ lockers["c2"].mode = "exclusive"
    /\ lockers["c2"].bucket = "bucketA"
    /\ lockers["c2"].objects = {"obj1"}

----------------------------------------------------------------------------
\* Properties of the fallback walk's stream (checked under SpecWalk)

\* The pages returned before the last one.
EarlierPages == SubSeq(pages, 1, Len(pages) - 1)

\* Once close(results) has run, nothing more is pushed.
NoPushAfterClose == [][(closeCount > 0) => (pushed' = pushed)]_vars

\* What has been pushed, against the pages returned so far.
PushedInOrder ==
    /\ IsPrefix(pushed, Flatten(pages))
    /\ pages # <<>> =>
        /\ IsPrefix(Flatten(EarlierPages), pushed)
        /\ ppc \in {"select", "check"} =>
            pushed = Flatten(EarlierPages) \o SubSeq(loi.Objects, 1, idx - 1)
    /\ \A i, j \in 1..Len(pushed) : i # j => pushed[i] # pushed[j]

\* C21: at every moment of the fallback walk, whatever the backend answers
\* and however cancellation and the consumer's reads interleave, what has been
\* pushed is a prefix of the objects of the pages returned so far, taken in
\* call order: the pages before the last one are pushed whole, the last one
\* up to the range loop's index; no object is pushed twice; and no push
\* follows the closure of the sink.
C21_PushedIsPrefixOfPages == []PushedInOrder /\ NoPushAfterClose

\* A walk cancelled in the middle of its second page: the first page was
\* pushed whole, one object of the second, and the sink is closed.
C21_Witness ==
    /\ Len(pages) = 2
    /\ Len(pages[1].Objects) = 2
    /\ Len(pages[2].Objects) = 2
    /\ pushed = <<Obj(1, 1), Obj(1, 2), Obj(2, 1)>>
    /\ cancelled
    /\ exitVia = "cancel"
    /\ closeCount = 1

\* The native Walk has returned nil or an error other than NotImplemented.
NativeSettled == nativeErr \in NativeResults \ {NotImplemented}

\* What Walk and its goroutine have done to the results channel: nothing.
SinkUntouched ==
    /\ pushed = <<>>
    /\ sinkBuf = <<>>
    /\ received = <<>>
    /\ closeCount = 0

\* No step, the dispatch on the native result included, pushes or closes.
SinkLeftAlone ==
    [][(NativeSettled') => (<<pushed, sinkBuf, closeCount>>' = <<pushed, sinkBuf, closeCount>>)]_vars

\* C22: when the native Walk returns nil or an error other than
\* NotImplemented, Walk returns that result without starting the goroutine
\* and without calling ListObjects, and neither then nor later does it push
\* onto the results channel or close it.
C22_NativeResultLeavesSinkUntouched ==
    /\ [](NativeSettled =>
            /\ wpc = "returned"
            /\ walkRet = nativeErr
            /\ ppc = "idle"
            /\ calls = <<>>
            /\ SinkUntouched)
    /\ SinkLeftAlone

\* The native Walk failed with a backend error and Walk returned it; since
\* then the context was cancelled and the consumer, never served, gave up.
C22_Witness ==
    /\ nativeErr = "ErrBackend"
    /\ walkRet = "ErrBackend"
    /\ wpc = "returned"
    /\ cancelled
    /\ cpc = "gone"
    /\ closeCount = 0

----------------------------------------------------------------------------
\* Properties of the listener and the object layer (checked under SpecBoot)

\* The go statement running httpServer.Start() was executed (the listener
\* binds whenever that goroutine gets to run, or fails to) and the server
\* is installed as GlobalHTTPServer.
ListenerStarted == srv # "none" /\ GlobalHTTPServer = "httpServer"

\* GlobalHTTPServer is written after the goroutine of the listener was
\* started and before anything of the backend exists.
HTTPHandleSetBeforeBackend ==
    [][(GlobalHTTPServer' # GlobalHTTPServer) =>
        (/\ srv # "none"
         /\ ~Executed("ConstructBackendLayer")
         /\ newObject = Nil
         /\ GlobalObjectAPI = Nil)]_vars

\* GlobalObjectAPI is written with the listener started, after the backend
\* was constructed and decorated.
ObjectHandleSetAfterBackend ==
    [][(GlobalObjectAPI' # GlobalObjectAPI) =>
        (/\ ListenerStarted
         /\ ~constructFailed
         /\ ExecutedBefore("ConstructBackendLayer", "DecorateLayer")
         /\ Executed("DecorateLayer"))]_vars

\* C23: the listener's goroutine is started and the server installed as
\* GlobalHTTPServer before the backend is constructed: when StartGateway
\* stands at the construction of the backend the listener is started and
\* GlobalObjectAPI is unset, every executed construction comes after
\* StartRouterAndListener, and GlobalObjectAPI is set only after
\* ConstructBackendLayer and DecorateLayer have succeeded, in that order.
C23_ListenerBeforeObjectLayer ==
    /\ [](bpc = "ConstructBackendLayer" =>
            /\ ListenerStarted
            /\ Executed("StartRouterAndListener")
            /\ newObject = Nil
            /\ GlobalObjectAPI = Nil)
    /\ [](Executed("ConstructBackendLayer") =>
            /\ ExecutedBefore("StartRouterAndListener", "ConstructBackendLayer")
            /\ GlobalHTTPServer = "httpServer")
    /\ [](GlobalObjectAPI # Nil =>
            /\ ~constructFailed
            /\ ExecutedBefore("ConstructBackendLayer", "DecorateLayer")
            /\ Executed("DecorateLayer")
            /\ GlobalObjectAPI = NewGatewayLayerWithLocker(BackendLayer(gatewayName)))
    /\ HTTPHandleSetBeforeBackend
    /\ ObjectHandleSetAfterBackend

\* The listener is bound and the server installed; the backend is
\* constructed and decorated, and the main goroutine holds the mutex to set
\* GlobalObjectAPI, which is still unset.
C23_Witness ==
    /\ bpc = "InstallGlobalLayer.Write"
    /\ srv = "listening"
    /\ GlobalHTTPServer = "httpServer"
    /\ Executed("ConstructBackendLayer")
    /\ Executed("DecorateLayer")
    /\ newObject = NewGatewayLayerWithLocker(BackendLayer(gatewayName))
    /\ GlobalObjectAPI = Nil

====
